---------------------------- MODULE Spec2Model ----------------------------
(***************************************************************************)
(* A model of the Intel VT-x core of barevisor: VMX enablement (vmx.rs),   *)
(* VMCS configuration and the VM-exit dispatch loop (guest.rs), and the    *)
(* identity-mapping extended page tables (epts.rs).                        *)
(*                                                                         *)
(* Machine words are modelled as the set of the positions of their 1 bits  *)
(* (a u64 is a subset of 0..63), so that &, |, !, << and >> are exact at   *)
(* every width; TLC's own integers stop at 2^31 - 1.                       *)
(***************************************************************************)
EXTENDS Integers, FiniteSets, Sequences, TLC

VARIABLES
    pc,           \* where the per-CPU bring-up stands
    msr,          \* the model-specific registers of the CPU
    cr0,          \* the live CR0
    cr4,          \* the live CR4
    env,          \* read-only platform facts (selectors, descriptors, overrides)
    vmcs,         \* the current VMCS: field -> value
    registers,    \* VmxGuest::registers, the register snapshot
    ret,          \* what the last call returned (or that it panicked)
    call,         \* the pending call of a pure function
    log,          \* the privileged operations executed so far, in order
    epts,         \* SharedGuestData::epts, the extended page tables
    APIC_ID_MAP,  \* apic_id::APIC_ID_MAP, as the set of its (key, value) entries
    PROCESSOR_COUNT, \* apic_id::PROCESSOR_COUNT
    cpus,         \* the logical CPUs that share the guest data: their position and VMCS
    SHARED_GUEST_DATA, \* guest.rs SHARED_GUEST_DATA, the latch and what it holds
    paging_structures \* the host PagingStructuresRaw

vars == <<pc, msr, cr0, cr4, env, vmcs, registers, ret, call, log, epts, APIC_ID_MAP, PROCESSOR_COUNT, cpus, SHARED_GUEST_DATA, paging_structures>>

----------------------------------------------------------------------------
(* Words as bit sets.                                                      *)

U16 == 0..15
U32 == 0..31
U64 == 0..63

\* The word whose value is the natural number n (n < 2^31).
Bits(n) == {i \in 0..30 : (n \div (2^i)) % 2 = 1}

BitAnd(a, b) == a \cap b
BitOr(a, b) == a \cup b
\* !a at width w
BitNot(a, w) == w \ a
\* a >> k
Shr(a, k) == {b - k : b \in {c \in a : c >= k}}
\* a << k in a word of width w (bits shifted out are lost)
Shl(a, k, w) == {b + k : b \in a} \cap w
\* `a as u32`
AsU32(a) == a \cap U32

\* A capability MSR from its two halves.
Cap(low, high) == AsU32(low) \cup Shl(AsU32(high), 32, U64)

----------------------------------------------------------------------------
(* Bounds of the checked input families.                                   *)

MaxNativeBits == 6
MaxCapBits == 2
MaxCrBits == 2
MaxFailAt == 2
MaxSelBits == 4
\* The entries of one EPT table, where the program has 512.
TableEntries == 4
MaxCpus == 3
MaxAdvance == 6

Min(a, b) == IF a < b THEN a ELSE b
FirstOf(seq, n) == {seq[i] : i \in 1..Min(n, Len(seq))}

----------------------------------------------------------------------------
(* Results of calls.                                                       *)

NoValue == {-1}
Returned(v) == [kind |-> "value", value |-> v]
Panicked == [kind |-> "panic", value |-> NoValue]
NotCalled == [kind |-> "none", value |-> NoValue]

NoCall == [fn |-> "none", control |-> "none", arg |-> NoValue]

rdmsr(m) == msr[m]

----------------------------------------------------------------------------
(* VmxGuest::access_rights                                                 *)

VMX_SEGMENT_ACCESS_RIGHTS_UNUSABLE_FLAG == {16}
AccessRightsMask == Bits(\hF0FF)

\* The re-encoding without the shift, and without the mask.
access_rights_keep_low_byte(native) ==
    IF native = {} THEN VMX_SEGMENT_ACCESS_RIGHTS_UNUSABLE_FLAG
    ELSE BitAnd(AsU32(native), AccessRightsMask)

access_rights_no_mask(native) ==
    IF native = {} THEN VMX_SEGMENT_ACCESS_RIGHTS_UNUSABLE_FLAG
    ELSE Shr(native, 8)

access_rights(native) ==
    IF native = {} THEN VMX_SEGMENT_ACCESS_RIGHTS_UNUSABLE_FLAG
    ELSE BitAnd(Shr(native, 8), AccessRightsMask)

----------------------------------------------------------------------------
(* VmxGuest::adjust_vmx_control                                            *)

IA32_VMX_BASIC_VMX_CONTROLS_FLAG == {55}

VmxControl == {"PinBased", "ProcessorBased", "ProcessorBased2",
               "ProcessorBased3", "VmExit", "VmEntry"}

\* The choice of the MSR that ignores IA32_VMX_BASIC bit 55.
cap_msr_never_true(control, true_cap_msr_supported) ==
    CASE control = "PinBased" -> "IA32_VMX_PINBASED_CTLS"
      [] control = "ProcessorBased" -> "IA32_VMX_PROCBASED_CTLS"
      [] control = "VmExit" -> "IA32_VMX_EXIT_CTLS"
      [] control = "VmEntry" -> "IA32_VMX_ENTRY_CTLS"
      [] control = "ProcessorBased2" -> "IA32_VMX_PROCBASED_CTLS2"
      [] control = "ProcessorBased3" -> "IA32_VMX_PROCBASED_CTLS3"

cap_msr(control, true_cap_msr_supported) ==
    CASE control = "PinBased" /\ true_cap_msr_supported -> "IA32_VMX_TRUE_PINBASED_CTLS"
      [] control = "PinBased" /\ ~true_cap_msr_supported -> "IA32_VMX_PINBASED_CTLS"
      [] control = "ProcessorBased" /\ true_cap_msr_supported -> "IA32_VMX_TRUE_PROCBASED_CTLS"
      [] control = "ProcessorBased" /\ ~true_cap_msr_supported -> "IA32_VMX_PROCBASED_CTLS"
      [] control = "VmExit" /\ true_cap_msr_supported -> "IA32_VMX_TRUE_EXIT_CTLS"
      [] control = "VmExit" /\ ~true_cap_msr_supported -> "IA32_VMX_EXIT_CTLS"
      [] control = "VmEntry" /\ true_cap_msr_supported -> "IA32_VMX_TRUE_ENTRY_CTLS"
      [] control = "VmEntry" /\ ~true_cap_msr_supported -> "IA32_VMX_ENTRY_CTLS"
      [] control = "ProcessorBased2" -> "IA32_VMX_PROCBASED_CTLS2"
      [] control = "ProcessorBased3" -> "IA32_VMX_PROCBASED_CTLS3"

\* The assertion without its condition.
requested_features_supported_unchecked(effective_value, requested_value) == TRUE

\* The assertion of lines 403-406 and 440-443.
requested_features_supported(effective_value, requested_value) ==
    BitOr(effective_value, requested_value) = effective_value

adjust_vmx_control(control, requested_value) ==
    LET vmx_basic == rdmsr("IA32_VMX_BASIC")
        true_cap_msr_supported ==
            BitAnd(vmx_basic, IA32_VMX_BASIC_VMX_CONTROLS_FLAG) # {}
    IN  IF control = "ProcessorBased3"
        THEN LET allowed1 == rdmsr("IA32_VMX_PROCBASED_CTLS3")
                 effective_value == BitAnd(requested_value, allowed1)
             IN  IF requested_features_supported(effective_value, requested_value)
                 THEN Returned(effective_value)
                 ELSE Panicked
        ELSE LET capabilities == rdmsr(cap_msr(control, true_cap_msr_supported))
                 allowed0 == AsU32(capabilities)
                 allowed1 == AsU32(Shr(capabilities, 32))
                 effective_value == BitAnd(BitOr(requested_value, allowed0), allowed1)
             IN  IF ~(requested_value \subseteq U32)
                 THEN Panicked  \* u32::try_from(requested_value).unwrap()
                 ELSE IF requested_features_supported(effective_value, requested_value)
                 THEN Returned(effective_value)
                 ELSE Panicked

----------------------------------------------------------------------------
(* get_adjusted_cr0, get_adjusted_cr4                                      *)

\* The adjustment with the two fixed MSRs applied in the other order.
get_adjusted_cr0_fixed1_wins(cr) ==
    LET fixed0 == rdmsr("IA32_VMX_CR0_FIXED0")
        fixed1 == rdmsr("IA32_VMX_CR0_FIXED1")
    IN  BitAnd(BitOr(cr, fixed0), fixed1)

get_adjusted_cr0(cr) ==
    LET fixed0 == rdmsr("IA32_VMX_CR0_FIXED0")
        fixed1 == rdmsr("IA32_VMX_CR0_FIXED1")
    IN  BitOr(BitAnd(cr, fixed1), fixed0)

get_adjusted_cr4(cr) ==
    LET fixed0 == rdmsr("IA32_VMX_CR4_FIXED0")
        fixed1 == rdmsr("IA32_VMX_CR4_FIXED1")
    IN  BitOr(BitAnd(cr, fixed1), fixed0)

----------------------------------------------------------------------------
(* The VMCS as the VMREAD/VMWRITE pair sees it: field -> value.            *)

Segments == {"ES", "CS", "SS", "DS", "FS", "GS", "TR", "LDTR"}
HostSegments == {"ES", "CS", "SS", "DS", "FS", "GS", "TR"}

ControlFields == {"control::VMEXIT_CONTROLS", "control::VMENTRY_CONTROLS",
                  "control::PINBASED_EXEC_CONTROLS",
                  "control::PRIMARY_PROCBASED_EXEC_CONTROLS",
                  "control::SECONDARY_PROCBASED_EXEC_CONTROLS"}

Fields ==
    ControlFields
    \cup {"control::MSR_BITMAPS_ADDR_FULL", "control::EPTP_FULL",
          "control::CR0_READ_SHADOW", "control::CR4_READ_SHADOW"}
    \cup {"guest::" \o s \o "_SELECTOR" : s \in Segments}
    \cup {"guest::" \o s \o "_LIMIT" : s \in Segments}
    \cup {"guest::" \o s \o "_ACCESS_RIGHTS" : s \in Segments}
    \cup {"guest::" \o s \o "_BASE" : s \in Segments}
    \cup {"guest::GDTR_BASE", "guest::GDTR_LIMIT", "guest::IDTR_BASE",
          "guest::IDTR_LIMIT", "guest::IA32_SYSENTER_CS",
          "guest::IA32_SYSENTER_EIP", "guest::IA32_SYSENTER_ESP",
          "guest::LINK_PTR_FULL", "guest::CR0", "guest::CR3", "guest::CR4",
          "guest::RSP", "guest::RIP", "guest::RFLAGS", "guest::IA32_EFER_FULL",
          "guest::ACTIVITY_STATE"}
    \cup {"host::" \o s \o "_SELECTOR" : s \in HostSegments}
    \cup {"host::CR0", "host::CR3", "host::CR4", "host::FS_BASE",
          "host::GS_BASE", "host::TR_BASE", "host::GDTR_BASE", "host::IDTR_BASE"}
    \cup {"ro::EXIT_REASON", "ro::EXIT_QUALIFICATION",
          "ro::VMEXIT_INSTRUCTION_LEN", "ro::VM_INSTRUCTION_ERROR"}

\* A field no VMWRITE and no VM-exit has stored to yet.
Unwritten == NoValue

ClearVmcs == [f \in Fields |-> Unwritten]

\* VMREAD from the VMCS v.
vmread(v, encoding) == v[encoding]

\* One step of a handler: a VMWRITE of a value, or the panic of the
\* expression that computes it (field "-" is a step that writes nothing).
Write(field, value) == [field |-> field, res |-> Returned(value)]
Step(field, res) == [field |-> field, res |-> res]
PanicHere == [field |-> "-", res |-> Panicked]

RECURSIVE FirstPanic(_, _)
FirstPanic(steps, i) ==
    IF i > Len(steps) THEN i
    ELSE IF steps[i].res.kind = "panic" THEN i
    ELSE FirstPanic(steps, i + 1)

\* The number of steps that execute when the VMWRITE of step fail_at fails
\* (fail_at = Len(steps) + 1: none does).
Executed(steps, fail_at) == Min(FirstPanic(steps, 1), fail_at) - 1

Completes(steps, fail_at) == Executed(steps, fail_at) = Len(steps)

\* The VMCS after the first n steps.
AfterSteps(v, steps, n) ==
    [f \in Fields |->
        LET hits == {i \in 1..n : steps[i].field = f}
        IN  IF hits = {} THEN v[f]
            ELSE steps[CHOOSE i \in hits : \A j \in hits : j <= i].res.value]

\* Where a VMWRITE may fail: at one of the first MaxFailAt steps, or nowhere.
FailPoints(steps) ==
    {k \in 1..(Len(steps) + 1) : k = Len(steps) + 1 \/ k <= MaxFailAt}

----------------------------------------------------------------------------
(* The log of privileged operations.                                       *)

Op(op, value) == [op |-> op, value |-> value]

Ops(l) == {l[i].op : i \in 1..Len(l)}

\* The position of the first op of that name in the log (0: none).
FirstAt(l, op) ==
    IF op \in Ops(l) THEN CHOOSE i \in 1..Len(l) :
                              l[i].op = op /\ \A j \in 1..(i - 1) : l[j].op # op
    ELSE 0

----------------------------------------------------------------------------
(* Vmx::enable (vmx.rs)                                                    *)

IA32_FEATURE_CONTROL_LOCK_BIT_FLAG == {0}
IA32_FEATURE_CONTROL_ENABLE_VMX_OUTSIDE_SMX_FLAG == {2}

\* The update that writes the two bits alone.
update_feature_control_msr_bits_only(feature_control) ==
    IF BitAnd(feature_control, IA32_FEATURE_CONTROL_LOCK_BIT_FLAG) = {}
    THEN BitOr(IA32_FEATURE_CONTROL_ENABLE_VMX_OUTSIDE_SMX_FLAG,
               IA32_FEATURE_CONTROL_LOCK_BIT_FLAG)
    ELSE feature_control

\* The value IA32_FEATURE_CONTROL holds after update_feature_control_msr.
update_feature_control_msr(feature_control) ==
    IF BitAnd(feature_control, IA32_FEATURE_CONTROL_LOCK_BIT_FLAG) = {}
    THEN BitOr(BitOr(feature_control,
                     IA32_FEATURE_CONTROL_ENABLE_VMX_OUTSIDE_SMX_FLAG),
               IA32_FEATURE_CONTROL_LOCK_BIT_FLAG)
    ELSE feature_control

\* The WRMSR it executes, if any.
update_feature_control_msr_ops(feature_control) ==
    IF BitAnd(feature_control, IA32_FEATURE_CONTROL_LOCK_BIT_FLAG) = {}
    THEN <<Op("wrmsr IA32_FEATURE_CONTROL",
              update_feature_control_msr(feature_control))>>
    ELSE <<>>

\* "Without those two bits, the VMXON instruction fails."
vmxon_instruction_permitted(feature_control) ==
    /\ BitAnd(feature_control, IA32_FEATURE_CONTROL_LOCK_BIT_FLAG) # {}
    /\ BitAnd(feature_control, IA32_FEATURE_CONTROL_ENABLE_VMX_OUTSIDE_SMX_FLAG) # {}

\* The result of a VMX instruction dropped: execution goes on either way.
unwrap_result_dropped(succeeded, then) == then

\* `.unwrap()` of the result of a VMX instruction.
unwrap(succeeded, then) == IF succeeded THEN then ELSE "fatal"

\* vmxon() without the unwrap.
vmxon_result_ignored(feature_control, vmfail) == "root"

\* vmxon(): the position of the CPU after VMXON and the unwrap of its result.
vmxon(feature_control, vmfail) ==
    unwrap(vmxon_instruction_permitted(feature_control) /\ ~vmfail, "root")

\* The VMCS revision identifier stored into a VMXON or VMCS region.
revision_id == AsU32(rdmsr("IA32_VMX_BASIC"))

\* Vmx::enable with VMXON ahead of the register updates.
enable_ops_vmxon_first(new_cr0, new_cr4, feature_control) ==
    <<Op("vmxon", revision_id), Op("cr0_write", new_cr0), Op("cr4_write", new_cr4)>>
    \o update_feature_control_msr_ops(feature_control)

\* The privileged operations of Vmx::enable, in program order.
enable_ops(new_cr0, new_cr4, feature_control) ==
    <<Op("cr0_write", new_cr0), Op("cr4_write", new_cr4)>>
    \o update_feature_control_msr_ops(feature_control)
    \o <<Op("vmxon", revision_id)>>

Enable ==
    /\ pc = "boot"
    /\ \E vmfail \in BOOLEAN :
        LET new_cr0 == get_adjusted_cr0(cr0)
            new_cr4 == get_adjusted_cr4(cr4)
            feature_control == rdmsr("IA32_FEATURE_CONTROL")
            updated == update_feature_control_msr(feature_control)
        IN  /\ cr0' = new_cr0
            /\ cr4' = new_cr4
            /\ msr' = [msr EXCEPT !["IA32_FEATURE_CONTROL"] = updated]
            /\ log' = log \o enable_ops(new_cr0, new_cr4, feature_control)
            /\ pc' = vmxon(updated, vmfail)
    /\ UNCHANGED <<env, vmcs, registers, ret, call, epts, APIC_ID_MAP, PROCESSOR_COUNT, cpus, SHARED_GUEST_DATA, paging_structures>>

----------------------------------------------------------------------------
(* VmxGuest::new, VmxGuest::activate                                       *)

RegisterNames == {"rax", "rbx", "rcx", "rdx", "rsi", "rdi", "rbp", "r8", "r9",
                  "r10", "r11", "r12", "r13", "r14", "r15", "rip", "rsp",
                  "rflags"}

DefaultRegisters == [r \in RegisterNames |-> {}]

\* Vmcs::new: the revision identifier, then VMCLEAR.
New ==
    /\ pc = "root"
    /\ \E vmfail \in BOOLEAN :
        /\ registers' = DefaultRegisters
        /\ vmcs' = ClearVmcs
        /\ log' = Append(log, Op("vmclear", revision_id))
        /\ pc' = unwrap(~vmfail, "clear")
    /\ UNCHANGED <<msr, cr0, cr4, env, ret, call, epts, APIC_ID_MAP, PROCESSOR_COUNT, cpus, SHARED_GUEST_DATA, paging_structures>>

Activate ==
    /\ pc = "clear"
    /\ \E vmfail \in BOOLEAN :
        /\ log' = Append(log, Op("vmptrld", revision_id))
        /\ pc' = unwrap(~vmfail, "current")
    /\ UNCHANGED <<msr, cr0, cr4, env, vmcs, registers, ret, call, epts, APIC_ID_MAP, PROCESSOR_COUNT, cpus, SHARED_GUEST_DATA, paging_structures>>

----------------------------------------------------------------------------
(* VmxGuest::initialize                                                    *)

HOST_ADDRESS_SPACE_SIZE == {9}
IA32E_MODE_GUEST == {9}
USE_MSR_BITMAPS == {28}
SECONDARY_CONTROLS == {31}
ENABLE_EPT == {1}
ENABLE_RDTSCP == {3}
UNRESTRICTED_GUEST == {7}
ENABLE_INVPCID == {12}
ENABLE_XSAVES_XRSTORS == {20}

\* What initialize_control requests of each control.
Requested(control) ==
    CASE control = "VmExit" -> HOST_ADDRESS_SPACE_SIZE
      [] control = "VmEntry" -> IA32E_MODE_GUEST
      [] control = "PinBased" -> {}
      [] control = "ProcessorBased" -> USE_MSR_BITMAPS \cup SECONDARY_CONTROLS
      [] control = "ProcessorBased2" ->
            ENABLE_EPT \cup UNRESTRICTED_GUEST \cup ENABLE_RDTSCP
            \cup ENABLE_INVPCID \cup ENABLE_XSAVES_XRSTORS

\* The control field each control kind is written to.
FieldOf(control) ==
    CASE control = "VmExit" -> "control::VMEXIT_CONTROLS"
      [] control = "VmEntry" -> "control::VMENTRY_CONTROLS"
      [] control = "PinBased" -> "control::PINBASED_EXEC_CONTROLS"
      [] control = "ProcessorBased" -> "control::PRIMARY_PROCBASED_EXEC_CONTROLS"
      [] control = "ProcessorBased2" -> "control::SECONDARY_PROCBASED_EXEC_CONTROLS"

ControlOrder == <<"VmExit", "VmEntry", "PinBased", "ProcessorBased", "ProcessorBased2">>

\* initialize_control without adjust_vmx_control.
initialize_control_unadjusted ==
    [i \in 1..Len(ControlOrder) |->
        Write(FieldOf(ControlOrder[i]), Requested(ControlOrder[i]))]
    \o <<Write("control::MSR_BITMAPS_ADDR_FULL", env.msr_bitmaps_pa),
         Write("control::EPTP_FULL", env.eptp)>>

initialize_control ==
    [i \in 1..Len(ControlOrder) |->
        Step(FieldOf(ControlOrder[i]),
             adjust_vmx_control(ControlOrder[i], Requested(ControlOrder[i])))]
    \o <<Write("control::MSR_BITMAPS_ADDR_FULL", env.msr_bitmaps_pa),
         Write("control::EPTP_FULL", env.eptp)>>

\* The order in which initialize_guest and handle_init_signal go through
\* the segment registers.
GuestSelectorOrder == <<"ES", "CS", "SS", "DS", "FS", "GS", "TR", "LDTR">>
GuestLimitOrder == <<"ES", "CS", "SS", "DS", "FS", "GS", "TR">>

\* SegmentDescriptor::try_from_gdtr(&gdtr, tr()).unwrap().base()
tr_base_from_gdtr ==
    IF env.tr_descriptor_base = NoValue THEN Panicked
    ELSE Returned(env.tr_descriptor_base)

\* The link pointer left at zero.
initialize_guest_link_ptr_zero(regs) == <<Write("guest::LINK_PTR_FULL", {})>>

initialize_guest_link_ptr(regs) == <<Write("guest::LINK_PTR_FULL", U64)>>

initialize_guest(regs) ==
    [i \in 1..Len(GuestSelectorOrder) |->
        Write("guest::" \o GuestSelectorOrder[i] \o "_SELECTOR",
              env.sel[GuestSelectorOrder[i]])]
    \o [i \in 1..Len(GuestLimitOrder) |->
        Write("guest::" \o GuestLimitOrder[i] \o "_LIMIT",
              env.lsl[GuestLimitOrder[i]])]
    \o [i \in 1..Len(GuestLimitOrder) |->
        Write("guest::" \o GuestLimitOrder[i] \o "_ACCESS_RIGHTS",
              access_rights(env.lar[GuestLimitOrder[i]]))]
    \o <<Write("guest::LDTR_ACCESS_RIGHTS", access_rights({})),
         Write("guest::FS_BASE", rdmsr("IA32_FS_BASE")),
         Write("guest::GS_BASE", rdmsr("IA32_GS_BASE")),
         Step("guest::TR_BASE", tr_base_from_gdtr),
         Write("guest::GDTR_BASE", env.gdtr.base),
         Write("guest::GDTR_LIMIT", env.gdtr.limit),
         Write("guest::IDTR_BASE", env.idtr.base),
         Write("guest::IDTR_LIMIT", env.idtr.limit),
         Write("guest::IA32_SYSENTER_CS", rdmsr("IA32_SYSENTER_CS")),
         Write("guest::IA32_SYSENTER_EIP", rdmsr("IA32_SYSENTER_EIP")),
         Write("guest::IA32_SYSENTER_ESP", rdmsr("IA32_SYSENTER_ESP"))>>
    \o initialize_guest_link_ptr(regs)
    \o <<Write("guest::CR0", cr0),
         Write("guest::CR3", env.cr3),
         Write("guest::CR4", cr4),
         Write("guest::RSP", regs.rsp),
         Write("guest::RIP", regs.rip),
         Write("guest::RFLAGS", regs.rflags)>>

\* The selector as it is.
host_selector_unmasked(selector) == selector

\* `selector.bits() & !0b111`
host_selector(selector) == BitAnd(selector, BitNot({0, 1, 2}, U16))

\* The TR selector initialize_host uses: the override's, else the live one.
host_tr ==
    IF env.shared_host.gdts.some THEN env.shared_host.gdts.tr
    ELSE env.sel["TR"]

\* The unwraps of initialize_host, all ahead of its first VMWRITE.
initialize_host_panics ==
    \/ ~env.shared_host.set
    \/ /\ env.shared_host.gdts.some
       /\ \/ env.shared_host.gdts.tr = NoValue
          \/ env.shared_host.gdts.tss_base = NoValue
    \/ /\ ~env.shared_host.gdts.some
       /\ env.tr_descriptor_base = NoValue

HostSelectorOrder == <<"ES", "CS", "SS", "DS", "FS", "GS">>

initialize_host ==
    IF initialize_host_panics THEN <<PanicHere>>
    ELSE
    [i \in 1..Len(HostSelectorOrder) |->
        Write("host::" \o HostSelectorOrder[i] \o "_SELECTOR",
              host_selector(env.sel[HostSelectorOrder[i]]))]
    \o <<Write("host::TR_SELECTOR", host_selector(host_tr)),
         Write("host::CR0", cr0),
         Write("host::CR3", IF env.shared_host.pt # NoValue
                            THEN env.shared_host.pt ELSE env.cr3),
         Write("host::CR4", cr4),
         Write("host::FS_BASE", rdmsr("IA32_FS_BASE")),
         Write("host::GS_BASE", rdmsr("IA32_GS_BASE")),
         Write("host::TR_BASE", IF env.shared_host.gdts.some
                                THEN env.shared_host.gdts.tss_base
                                ELSE env.tr_descriptor_base),
         Write("host::GDTR_BASE", IF env.shared_host.gdts.some
                                  THEN env.shared_host.gdts.gdt_base
                                  ELSE env.gdtr.base),
         Write("host::IDTR_BASE", IF env.shared_host.idt # NoValue
                                  THEN env.shared_host.idt ELSE env.idtr.base)>>

Initialize ==
    /\ pc = "current"
    /\ LET regs == env.capture
           steps == initialize_control \o initialize_guest(regs) \o initialize_host
       IN  \E fail_at \in FailPoints(steps) :
            /\ registers' = regs
            /\ vmcs' = AfterSteps(vmcs, steps, Executed(steps, fail_at))
            /\ pc' = IF Completes(steps, fail_at) THEN "ready" ELSE "fatal"
    /\ UNCHANGED <<msr, cr0, cr4, env, ret, call, log, epts, APIC_ID_MAP, PROCESSOR_COUNT, cpus, SHARED_GUEST_DATA, paging_structures>>

----------------------------------------------------------------------------
(* get_adjusted_guest_cr0, get_adjusted_guest_cr4                          *)

CR0_PROTECTED_MODE == {0}
CR0_EXTENSION_TYPE == {4}
CR0_ENABLE_PAGING == {31}

\* Cr0::all(): the flags the x86 crate names; `!` of a Cr0 keeps only these.
Cr0All == {0, 1, 2, 3, 4, 5, 16, 18, 29, 30, 31}

\* The adjustment of a guest that is never unrestricted.
get_adjusted_guest_cr0_restricted(v, cr) == get_adjusted_cr0(cr)

\* Lines 688-705.
get_adjusted_guest_cr0(v, cr) ==
    LET new_cr0 == get_adjusted_cr0(cr)
        secondary_proc_based_ctls2 == vmread(v, "control::SECONDARY_PROCBASED_EXEC_CONTROLS")
        unrestricted_guest ==
            BitAnd(AsU32(secondary_proc_based_ctls2), UNRESTRICTED_GUEST) # {}
        mask == BitOr(CR0_PROTECTED_MODE, CR0_ENABLE_PAGING)
    IN  IF unrestricted_guest
        THEN BitOr(BitAnd(new_cr0, BitNot(mask, Cr0All)), BitAnd(cr, mask))
        ELSE new_cr0

get_adjusted_guest_cr4(cr) == get_adjusted_cr4(cr)

----------------------------------------------------------------------------
(* VmxGuest::handle_init_signal, VmxGuest::handle_sipi_signal              *)

\* A setter of the bitfield crate: bits hi..lo of word become value.
SetField(word, hi, lo, value) ==
    (word \ (lo..hi)) \cup Shl(BitAnd(value, 0..(hi - lo)), lo, U32)

ExecuteReadAccessed == Bits(11)
ReadWriteAccessed == Bits(3)
LDT == Bits(2)
TssBusy == Bits(11)

set_segment_type(rights, type) == SetField(rights, 3, 0, type)
set_descriptor_type(rights, b) == SetField(rights, 4, 4, IF b THEN {0} ELSE {})
set_present(rights, b) == SetField(rights, 7, 7, IF b THEN {0} ELSE {})

CodeRights ==
    set_present(set_descriptor_type(set_segment_type({}, ExecuteReadAccessed), TRUE), TRUE)
\* The data-segment rights built from a zeroed VmxSegmentAccessRights.
DataRightsFromZero == set_segment_type({}, ReadWriteAccessed)

\* Line 512: `access_rights` goes on from the value CS was given.
DataRights == set_segment_type(CodeRights, ReadWriteAccessed)
LdtrRights == set_descriptor_type(set_segment_type(DataRights, LDT), FALSE)
TrRights == set_segment_type(LdtrRights, TssBusy)

WaitForSipi == Bits(3)
Active == {}

FLAGS_A1 == {1}
FLAGS_ZF == {6}
FLAGS_CF == {0}

RealModeSegment(s, selector, base, rights) ==
    <<Write("guest::" \o s \o "_SELECTOR", selector),
      Write("guest::" \o s \o "_BASE", base),
      Write("guest::" \o s \o "_LIMIT", Bits(\hFFFF)),
      Write("guest::" \o s \o "_ACCESS_RIGHTS", rights)>>

\* x86::cpuid::CpuId::new().get_feature_info().unwrap()
feature_info == IF env.extended_model_id = NoValue THEN <<PanicHere>> ELSE <<>>

\* Every VM-entry control is cleared.
init_vmentry_controls_all_cleared(v) ==
    <<Write("control::VMENTRY_CONTROLS", {})>>

\* Lines 583-585: IA-32e-mode-guest is cleared in the VM-entry controls.
init_vmentry_controls(v) ==
    <<Write("control::VMENTRY_CONTROLS",
            BitAnd(vmread(v, "control::VMENTRY_CONTROLS"),
                   BitNot(IA32E_MODE_GUEST, U64)))>>

handle_init_signal(v) ==
    <<Write("guest::RFLAGS", FLAGS_A1),
      Write("guest::RIP", Bits(\hFFF0)),
      Write("guest::CR3", {}),
      Write("control::CR0_READ_SHADOW", {}),
      Write("control::CR4_READ_SHADOW", {}),
      Write("guest::CR0", get_adjusted_guest_cr0(v, CR0_EXTENSION_TYPE)),
      Write("guest::CR4", get_adjusted_guest_cr4({}))>>
    \o RealModeSegment("CS", Bits(\hF000), 16..31, CodeRights)
    \o RealModeSegment("SS", {}, {}, DataRights)
    \o RealModeSegment("DS", {}, {}, DataRights)
    \o RealModeSegment("ES", {}, {}, DataRights)
    \o RealModeSegment("FS", {}, {}, DataRights)
    \o RealModeSegment("GS", {}, {}, DataRights)
    \o feature_info
    \o <<Write("guest::RSP", {}),
         Write("guest::GDTR_BASE", {}),
         Write("guest::GDTR_LIMIT", Bits(\hFFFF)),
         Write("guest::IDTR_BASE", {}),
         Write("guest::IDTR_LIMIT", Bits(\hFFFF))>>
    \o RealModeSegment("LDTR", {}, {}, LdtrRights)
    \o RealModeSegment("TR", {}, {}, TrRights)
    \o <<Write("guest::IA32_EFER_FULL", {}),
         Write("guest::FS_BASE", {}),
         Write("guest::GS_BASE", {})>>
    \o init_vmentry_controls(v)
    \o <<Write("guest::ACTIVITY_STATE", WaitForSipi)>>

\* RDX holds the family and not the extended model.
init_registers_family_only ==
    [r \in RegisterNames |->
        CASE r = "rflags" -> FLAGS_A1
          [] r = "rip" -> Bits(\hFFF0)
          [] r = "rdx" -> Bits(\h600)
          [] OTHER -> {}]

\* The snapshot when handle_init_signal returns: lines 471, 474, 528-541,
\* 570-577 assign every register of it.
init_registers ==
    [r \in RegisterNames |->
        CASE r = "rflags" -> FLAGS_A1
          [] r = "rip" -> Bits(\hFFF0)
          [] r = "rdx" -> BitOr(Bits(\h600), Shl(env.extended_model_id, 16, U64))
          [] OTHER -> {}]

\* The base is the vector shifted like the selector.
handle_sipi_signal_base_as_selector(v) ==
    LET vector == vmread(v, "ro::EXIT_QUALIFICATION")
    IN  <<Write("guest::CS_SELECTOR", Shl(vector, 8, U64)),
          Write("guest::CS_BASE", Shl(vector, 8, U64)),
          Write("guest::RIP", {}),
          Write("guest::ACTIVITY_STATE", Active)>>

\* The vector is taken only by a guest that waits for it.
handle_sipi_signal_if_waiting(v) ==
    LET vector == vmread(v, "ro::EXIT_QUALIFICATION")
    IN  IF vmread(v, "guest::ACTIVITY_STATE") = WaitForSipi
        THEN <<Write("guest::CS_SELECTOR", Shl(vector, 8, U64)),
               Write("guest::CS_BASE", Shl(vector, 12, U64)),
               Write("guest::RIP", {}),
               Write("guest::ACTIVITY_STATE", Active)>>
        ELSE <<>>

\* Lines 606-631. The exit qualification of a SIPI exit holds the vector in
\* bits 7:0 and zero above (SDM 27.2.1); it is used as it is read.
handle_sipi_signal(v) ==
    LET vector == vmread(v, "ro::EXIT_QUALIFICATION")
    IN  <<Write("guest::CS_SELECTOR", Shl(vector, 8, U64)),
          Write("guest::CS_BASE", Shl(vector, 12, U64)),
          Write("guest::RIP", {}),
          Write("guest::ACTIVITY_STATE", Active)>>

----------------------------------------------------------------------------
(* VmxGuest::run                                                           *)

AsU16(a) == a \cap U16

\* The carry into bit i of a + b: some lower bit generates it and every bit
\* between propagates it.
CarryInto(a, b, i) ==
    \E j \in 0..(i - 1) :
        /\ j \in a /\ j \in b
        /\ \A k \in (j + 1)..(i - 1) : k \in a \/ k \in b

\* a + b on u64, wrapping.
WrappingAdd(a, b) ==
    {i \in U64 : ((i \in a) # (i \in b)) # CarryInto(a, b, i)}

\* `a + b`: the sum, or a panic when it overflows and overflow checks are on.
Add(a, b) ==
    IF CarryInto(a, b, 64) /\ env.overflow_checks THEN Panicked
    ELSE Returned(WrappingAdd(a, b))

VMX_EXIT_REASON_INIT == Bits(3)
VMX_EXIT_REASON_SIPI == Bits(4)
VMX_EXIT_REASON_CPUID == Bits(10)
VMX_EXIT_REASON_RDMSR == Bits(31)
VMX_EXIT_REASON_WRMSR == Bits(32)
VMX_EXIT_REASON_XSETBV == Bits(55)

\* CF is looked at before ZF.
vmx_succeed_cf_first(flags) ==
    IF BitAnd(flags, FLAGS_CF) # {} THEN "VmFailInvalid"
    ELSE IF BitAnd(flags, FLAGS_ZF) # {} THEN "VmFailValid"
    ELSE "Ok"

\* Lines 861-873. The VMREAD of the VM-instruction error of the first arm
\* is a step of RunEntryFails.
vmx_succeed(flags) ==
    IF BitAnd(flags, FLAGS_ZF) # {} THEN "VmFailValid"
    ELSE IF BitAnd(flags, FLAGS_CF) # {} THEN "VmFailInvalid"
    ELSE "Ok"

\* Lines 96-98 without the write of RIP.
run_entry_writes_rip_kept(regs) ==
    <<Write("guest::RSP", regs.rsp),
      Write("guest::RFLAGS", regs.rflags)>>

\* Lines 96-98.
run_entry_writes(regs) ==
    <<Write("guest::RIP", regs.rip),
      Write("guest::RSP", regs.rsp),
      Write("guest::RFLAGS", regs.rflags)>>

GeneralRegisters == RegisterNames \ {"rip", "rsp", "rflags"}

\* run_vmx_guest stores the guest's general-purpose registers to the snapshot.
guest_registers(regs, e) ==
    [r \in RegisterNames |-> IF r \in GeneralRegisters THEN e.gpr ELSE regs[r]]

\* What a VM-exit stores to the VMCS. An exit without a RIP, RSP or RFLAGS of
\* its own is taken at the first instruction the guest resumed with: the
\* field is as the VM-entry loaded it.
vm_exit(v, e) ==
    [v EXCEPT !["guest::RIP"] = IF e.rip = NoValue THEN @ ELSE e.rip,
              !["guest::RSP"] = IF e.rsp = NoValue THEN @ ELSE e.rsp,
              !["guest::RFLAGS"] = IF e.rflags = NoValue THEN @ ELSE e.rflags,
              !["ro::EXIT_REASON"] = e.reason,
              !["ro::EXIT_QUALIFICATION"] = e.qualification,
              !["ro::VMEXIT_INSTRUCTION_LEN"] = e.instruction_len]

\* Only RIP is read back.
read_back_rip_only(v, regs) == [regs EXCEPT !.rip = vmread(v, "guest::RIP")]

\* Lines 108-110.
read_back(v, regs) ==
    [regs EXCEPT !.rip = vmread(v, "guest::RIP"),
                 !.rsp = vmread(v, "guest::RSP"),
                 !.rflags = vmread(v, "guest::RFLAGS")]

\* A dispatch whose catch-all arm is the CPUID arm.
ExitKindNoCatchAll(reason16) ==
    CASE reason16 = VMX_EXIT_REASON_INIT -> "InitSignal"
      [] reason16 = VMX_EXIT_REASON_SIPI -> "StartupIpi"
      [] reason16 = VMX_EXIT_REASON_RDMSR -> "Rdmsr"
      [] reason16 = VMX_EXIT_REASON_WRMSR -> "Wrmsr"
      [] reason16 = VMX_EXIT_REASON_XSETBV -> "XSetBv"
      [] OTHER -> "Cpuid"

\* Lines 113-140: the arms of the match on the 16-bit exit reason.
ExitKind(reason16) ==
    CASE reason16 = VMX_EXIT_REASON_INIT -> "InitSignal"
      [] reason16 = VMX_EXIT_REASON_SIPI -> "StartupIpi"
      [] reason16 = VMX_EXIT_REASON_CPUID -> "Cpuid"
      [] reason16 = VMX_EXIT_REASON_RDMSR -> "Rdmsr"
      [] reason16 = VMX_EXIT_REASON_WRMSR -> "Wrmsr"
      [] reason16 = VMX_EXIT_REASON_XSETBV -> "XSetBv"
      [] OTHER -> "Unhandled"

VmExitReason(kind, next_rip) == [kind |-> kind, value |-> next_rip]

\* The log has one entry for VM-entries: it is made at the first one and
\* holds the RFLAGS that the latest run_vmx_guest returned.
LogEntry(l, flags) ==
    IF "vmentry" \in Ops(l)
    THEN [i \in 1..Len(l) |-> IF l[i].op = "vmentry" THEN Op("vmentry", flags) ELSE l[i]]
    ELSE Append(l, Op("vmentry", flags))

\* run panics: the CPU is dead, and the log records what it died of.
Fatal(v, regs, l, cause) ==
    /\ pc' = "fatal"
    /\ vmcs' = v
    /\ registers' = regs
    /\ log' = Append(l, Op("panic: " \o cause, {}))
    /\ ret' = Panicked

\* Line 135: the catch-all arm dumps the VMCS to the log before it panics.
Dumped(l, cause) ==
    IF cause = "unhandled exit" THEN Append(l, Op("dump vmcs", {})) ELSE l

\* The handler of an exit: its VMWRITEs, the snapshot it leaves, what run returns.
Handler(v, regs) ==
    LET kind == ExitKind(AsU16(vmread(v, "ro::EXIT_REASON")))
        next_rip == Add(regs.rip, vmread(v, "ro::VMEXIT_INSTRUCTION_LEN"))
    IN  CASE kind = "InitSignal" ->
                [steps |-> handle_init_signal(v), regs |-> init_registers,
                 ret |-> VmExitReason(kind, NoValue), cause |-> "unwrap"]
          [] kind = "StartupIpi" ->
                [steps |-> handle_sipi_signal(v), regs |-> [regs EXCEPT !.rip = {}],
                 ret |-> VmExitReason(kind, NoValue), cause |-> "none"]
          [] kind = "Unhandled" ->
                [steps |-> <<PanicHere>>, regs |-> regs, ret |-> Panicked,
                 cause |-> "unhandled exit"]
          [] OTHER ->
                [steps |-> IF next_rip.kind = "panic" THEN <<PanicHere>> ELSE <<>>,
                 regs |-> regs, ret |-> VmExitReason(kind, next_rip.value),
                 cause |-> "overflow"]

\* A VMWRITE of lines 96-98 fails.
RunVmwriteFails ==
    LET pre == run_entry_writes(registers)
    IN  \E fail_at \in FailPoints(pre) :
            /\ ~Completes(pre, fail_at)
            /\ Fatal(AfterSteps(vmcs, pre, Executed(pre, fail_at)), registers, log,
                     "vmwrite")

\* The RFLAGS run_vmx_guest may return.
EntryFlags ==
    {FLAGS_A1, BitOr(FLAGS_A1, FLAGS_ZF), BitOr(FLAGS_A1, FLAGS_CF),
     BitOr(FLAGS_A1, BitOr(FLAGS_ZF, FLAGS_CF))}

\* The VM-entry fails: run_vmx_guest returns RFLAGS with ZF or CF.
RunEntryFails ==
    LET pre == run_entry_writes(registers)
    IN  \E flags \in EntryFlags, vmread_fails \in BOOLEAN :
            LET err == vmx_succeed(flags)
                entered == LogEntry(log, flags)
            IN  /\ err # "Ok"
                /\ vmread_fails => err = "VmFailValid"
                /\ Fatal(AfterSteps(vmcs, pre, Len(pre)), registers,
                         IF err = "VmFailValid"
                         THEN Append(entered, Op("vmread ro::VM_INSTRUCTION_ERROR", {}))
                         ELSE entered,
                         IF vmread_fails THEN "vmread" ELSE err)

\* The VM-entry succeeds, the guest runs and a VM-exit e brings control
\* back; run reads the snapshot back and dispatches on the exit reason.
RunExit ==
    LET pre == run_entry_writes(registers)
        v1 == AfterSteps(vmcs, pre, Len(pre))
    IN  \E flags \in EntryFlags, e \in env.exits, vmread_fails \in BOOLEAN :
            LET v2 == vm_exit(v1, e)
                regs2 == guest_registers(registers, e)
                regs3 == read_back(v2, regs2)
                h == Handler(v2, regs3)
            IN  /\ vmx_succeed(flags) = "Ok"
                /\ IF vmread_fails THEN Fatal(v2, regs2, LogEntry(log, flags), "vmread")
                   ELSE \E fail_at \in FailPoints(h.steps) :
                        IF Completes(h.steps, fail_at)
                        THEN /\ pc' = "ready"
                             /\ vmcs' = AfterSteps(v2, h.steps, Len(h.steps))
                             /\ registers' = h.regs
                             /\ ret' = h.ret
                             /\ log' = LogEntry(log, flags)
                        ELSE LET cause == IF FirstPanic(h.steps, 1) <= fail_at
                                          THEN h.cause ELSE "vmwrite"
                             IN  Fatal(AfterSteps(v2, h.steps, Executed(h.steps, fail_at)),
                                       regs3, Dumped(LogEntry(log, flags), cause), cause)

Run ==
    /\ pc = "ready"
    /\ \/ RunVmwriteFails
       \/ RunEntryFails
       \/ RunExit
    /\ UNCHANGED <<msr, cr0, cr4, env, call, epts, APIC_ID_MAP, PROCESSOR_COUNT, cpus, SHARED_GUEST_DATA, paging_structures>>

Next == Enable \/ New \/ Activate \/ Initialize \/ Run

----------------------------------------------------------------------------
(* Epts::build_identity. A table has TableEntries entries where the        *)
(* program has 512, and a large page is TableEntries base pages as 2 MiB   *)
(* is 512 pages of 4 KiB; addresses are natural numbers, entries are words.*)

BASE_PAGE_SHIFT == 12
BASE_PAGE_SIZE == 4096
LARGE_PAGE_SIZE == TableEntries * BASE_PAGE_SIZE

Indices == 0..(TableEntries - 1)

\* The guest-physical addresses under PML4[0]: [0, 512 GiB) in the program.
AddressSpace == TableEntries * TableEntries * LARGE_PAGE_SIZE

\* A setter of the bitfield crate on Entry(u64): bits hi..lo become value.
SetEntryField(entry, hi, lo, value) ==
    (entry \ (lo..hi)) \cup Shl(BitAnd(value, 0..(hi - lo)), lo, U64)

set_readable(entry) == SetEntryField(entry, 0, 0, {0})
set_writable(entry) == SetEntryField(entry, 1, 1, {0})
set_executable(entry) == SetEntryField(entry, 2, 2, {0})
set_memory_type(entry, value) == SetEntryField(entry, 5, 3, value)
set_large(entry) == SetEntryField(entry, 7, 7, {0})
set_pfn(entry, value) == SetEntryField(entry, 51, 12, value)

memory_type(entry) == Shr(entry \cap (3..5), 3)
large(entry) == 7 \in entry
pfn(entry) == Shr(entry \cap (12..51), 12)

\* zeroed_box::<Epts>()
ZeroTable == [i \in Indices |-> {}]
ZeroedEpts ==
    [pml4 |-> ZeroTable, pdpt |-> ZeroTable,
     pd |-> [i \in Indices |-> ZeroTable], pt |-> ZeroTable]

\* No memory type: Mtrr::find returned None.
NoType == -1

\* Mtrr::find(range): the type of the interval that holds the whole range.
mtrr_find(mtrr, first, end) ==
    LET holding == {r \in mtrr : r.first <= first /\ end <= r.end}
    IN  IF holding = {} THEN NoType
        ELSE (CHOOSE r \in holding : TRUE).type

\* An entry that points at the table in the page of address table_pa and
\* carries a memory type as well.
pointer_entry_write_back(entry, table_pa) ==
    set_pfn(set_memory_type(set_executable(set_writable(set_readable(entry))),
                            Bits(6)),
            Bits(table_pa \div 2^BASE_PAGE_SHIFT))

\* Lines 27-30, 32-35, 40-43: an entry that points at the next table.
pointer_entry(entry, table_pa) ==
    set_pfn(set_executable(set_writable(set_readable(entry))),
            Bits(table_pa \div 2^BASE_PAGE_SHIFT))

\* Lines 50-54: a 4 KiB leaf.
page_leaf(entry, type, pa) ==
    set_pfn(set_memory_type(set_executable(set_writable(set_readable(entry))),
                            Bits(type)),
            Bits(pa \div 2^BASE_PAGE_SHIFT))

\* A leaf of a large page that is left without its memory type.
large_leaf_untyped(entry, type, pa) ==
    set_pfn(set_large(set_executable(set_writable(set_readable(entry)))),
            Bits(pa \div 2^BASE_PAGE_SHIFT))

\* Lines 62-67: a 2 MiB leaf.
large_leaf(entry, type, pa) ==
    set_pfn(set_large(set_memory_type(
                set_executable(set_writable(set_readable(entry))), Bits(type))),
            Bits(pa \div 2^BASE_PAGE_SHIFT))

\* The state of build_identity between two iterations: the tables, the
\* running address, and whether it has panicked.
Building(e, pa, panic) == [epts |-> e, pa |-> pa, panic |-> panic]

\* Lines 44-56: the loop over the entries of the PT, from entry k on.
RECURSIVE fill_pt(_, _)
fill_pt(st, k) ==
    IF k = TableEntries \/ st.panic THEN st
    ELSE LET type == mtrr_find(env.mtrr, st.pa, st.pa + BASE_PAGE_SIZE)
         IN  IF type = NoType THEN [st EXCEPT !.panic = TRUE]
             ELSE fill_pt(Building([st.epts EXCEPT !.pt[k] =
                                        page_leaf(@, type, st.pa)],
                                   st.pa + BASE_PAGE_SIZE, FALSE),
                          k + 1)

\* Lines 36-71: the loop over the entries of pd[i], from entry j on.
RECURSIVE fill_pd(_, _, _)
fill_pd(st, i, j) ==
    IF j = TableEntries \/ st.panic THEN st
    ELSE IF st.pa = 0
         THEN fill_pd(fill_pt(Building([st.epts EXCEPT !.pd[i][j] =
                                            pointer_entry(@, env.epts_pa.pt)],
                                       st.pa, FALSE),
                              0),
                      i, j + 1)
         ELSE LET type == mtrr_find(env.mtrr, st.pa, st.pa + LARGE_PAGE_SIZE)
              IN  IF type = NoType THEN [st EXCEPT !.panic = TRUE]
                  ELSE fill_pd(Building([st.epts EXCEPT !.pd[i][j] =
                                            large_leaf(@, type, st.pa)],
                                        st.pa + LARGE_PAGE_SIZE, FALSE),
                               i, j + 1)

\* Lines 31-72: the loop over the entries of the PDPT, from entry i on.
RECURSIVE fill_pdpt(_, _)
fill_pdpt(st, i) ==
    IF i = TableEntries \/ st.panic THEN st
    ELSE fill_pdpt(fill_pd(Building([st.epts EXCEPT !.pdpt[i] =
                                        pointer_entry(@, env.epts_pa.pd[i])],
                                    st.pa, FALSE),
                           i, 0),
                   i + 1)

build_identity(e) ==
    fill_pdpt(Building([e EXCEPT !.pml4[0] = pointer_entry(@, env.epts_pa.pdpt)],
                       0, FALSE),
              0)

\* SHARED_GUEST_DATA is built: the tables are zeroed and filled.
BuildIdentity ==
    /\ pc = "ept_zeroed"
    /\ LET built == build_identity(epts)
       IN  /\ epts' = built.epts
           /\ pc' = IF built.panic THEN "fatal" ELSE "ept_built"
           /\ ret' = IF built.panic THEN Panicked ELSE Returned({})
    /\ UNCHANGED <<msr, cr0, cr4, env, vmcs, registers, call, log, APIC_ID_MAP, PROCESSOR_COUNT, cpus, SHARED_GUEST_DATA, paging_structures>>

\* The value of a word (below 2^31).
RECURSIVE ToInt(_)
ToInt(word) ==
    IF word = {} THEN 0
    ELSE LET b == CHOOSE x \in word : TRUE
         IN  2^b + ToInt(word \ {b})

\* The table that lies in the page frame `frame`; any other memory holds
\* no entry that is present.
TableAt(e, frame) ==
    IF frame = env.epts_pa.pml4 \div BASE_PAGE_SIZE THEN e.pml4
    ELSE IF frame = env.epts_pa.pdpt \div BASE_PAGE_SIZE THEN e.pdpt
    ELSE IF frame = env.epts_pa.pt \div BASE_PAGE_SIZE THEN e.pt
    ELSE IF \E i \in Indices : frame = env.epts_pa.pd[i] \div BASE_PAGE_SIZE
         THEN e.pd[CHOOSE i \in Indices :
                        frame = env.epts_pa.pd[i] \div BASE_PAGE_SIZE]
         ELSE ZeroTable

\* The index into the table of a level (3: PML4, 2: PDPT, 1: PD, 0: PT).
Index(level, gpa) ==
    (gpa \div (BASE_PAGE_SIZE * TableEntries^level)) % TableEntries

\* The walk of the CPU from the PML4 that the EPT pointer names: the
\* entries it reads, the size of the page of the leaf, and the address.
ept_walk(e, gpa) ==
    LET pml4e == e.pml4[Index(3, gpa)]
        pdpte == TableAt(e, ToInt(pfn(pml4e)))[Index(2, gpa)]
        pde == TableAt(e, ToInt(pfn(pdpte)))[Index(1, gpa)]
        pte == TableAt(e, ToInt(pfn(pde)))[Index(0, gpa)]
        path == IF large(pde) THEN <<pml4e, pdpte, pde>>
                ELSE <<pml4e, pdpte, pde, pte>>
        leaf == path[Len(path)]
        size == IF large(pde) THEN LARGE_PAGE_SIZE ELSE BASE_PAGE_SIZE
    IN  [path |-> path, leaf |-> leaf, size |-> size,
         present |-> \A n \in 1..Len(path) : path[n] \cap {0, 1, 2} # {},
         pa |-> ToInt(pfn(leaf)) * BASE_PAGE_SIZE + (gpa % size)]

\* The first two bytes and the last byte of every 4 KiB page under PML4[0].
WalkSamples ==
    {page * BASE_PAGE_SIZE + offset :
        page \in 0..((AddressSpace \div BASE_PAGE_SIZE) - 1),
        offset \in {0, 1, BASE_PAGE_SIZE - 1}}

\* The guest accesses a guest-physical address.
Translate ==
    /\ pc = "ept_built"
    /\ pc' = "ept_walked"
    /\ \E gpa \in WalkSamples :
            /\ call' = [fn |-> "ept_walk", control |-> "none", arg |-> Bits(gpa)]
            /\ ret' = LET walk == ept_walk(epts, gpa)
                      IN  IF walk.present THEN Returned(Bits(walk.pa))
                          ELSE [kind |-> "ept violation", value |-> NoValue]
    /\ UNCHANGED <<msr, cr0, cr4, env, vmcs, registers, log, epts, APIC_ID_MAP, PROCESSOR_COUNT, cpus, SHARED_GUEST_DATA, paging_structures>>

NextEpt == BuildIdentity \/ Translate

----------------------------------------------------------------------------
(* PagingStructuresRaw::build_identity (paging_structures.rs), scaled as    *)
(* the EPTs are: TableEntries entries per table.                            *)

\* Lines 54-63: the setters of Entry(u64) that take a flag.
Entry_set_present(entry, b) == SetEntryField(entry, 0, 0, IF b THEN {0} ELSE {})
Entry_set_writable(entry, b) == SetEntryField(entry, 1, 1, IF b THEN {0} ELSE {})
Entry_set_user(entry, b) == SetEntryField(entry, 2, 2, IF b THEN {0} ELSE {})
Entry_set_large(entry, b) == SetEntryField(entry, 7, 7, IF b THEN {0} ELSE {})

\* zeroed_box::<PagingStructuresRaw>()
ZeroedPagingStructures ==
    [pml4 |-> ZeroTable, pdpt |-> ZeroTable,
     pd |-> [i \in Indices |-> ZeroTable], pt |-> ZeroTable, pt_apic |-> ZeroTable]

\* The four setter calls made on every entry: present, writable, user,
\* and the frame of the table or page at pa.
mapped(entry, user, pa) ==
    set_pfn(Entry_set_user(Entry_set_writable(Entry_set_present(entry, TRUE), TRUE),
                           user),
            Bits(pa \div 2^BASE_PAGE_SHIFT))

\* Lines 100-104: a 2 MiB page.
mapped_large(entry, user, pa) ==
    set_pfn(Entry_set_large(
                Entry_set_user(Entry_set_writable(Entry_set_present(entry, TRUE), TRUE),
                               user), TRUE),
            Bits(pa \div 2^BASE_PAGE_SHIFT))

\* The null page left as the loop mapped it.
null_page_kept(entry) == entry

\* Line 98: the null page is made non-present.
null_page(entry) == Entry_set_present(entry, FALSE)

\* Lines 90-96: the loop over the entries of the PT, from entry k on.
RECURSIVE ps_fill_pt(_, _, _)
ps_fill_pt(st, user, k) ==
    IF k = TableEntries THEN st
    ELSE ps_fill_pt([ps |-> [st.ps EXCEPT !.pt[k] = mapped(@, user, st.pa)],
                     pa |-> st.pa + BASE_PAGE_SIZE],
                    user, k + 1)

\* Lines 81-107: the loop over the entries of pd[i], from entry j on.
RECURSIVE ps_fill_pd(_, _, _, _)
ps_fill_pd(st, npt, i, j) ==
    IF j = TableEntries THEN st
    ELSE IF st.pa = 0 /\ ~npt
         THEN LET pointed == [st EXCEPT !.ps.pd[i][j] = mapped(@, npt, env.ps_pa.pt)]
                  filled == ps_fill_pt(pointed, npt, 0)
              IN  ps_fill_pd([filled EXCEPT !.ps.pt[0] = null_page(@)], npt, i, j + 1)
         ELSE ps_fill_pd([ps |-> [st.ps EXCEPT !.pd[i][j] =
                                      mapped_large(@, npt, st.pa)],
                          pa |-> st.pa + LARGE_PAGE_SIZE],
                         npt, i, j + 1)

\* Lines 76-108: the loop over the entries of the PDPT, from entry i on.
RECURSIVE ps_fill_pdpt(_, _, _)
ps_fill_pdpt(st, npt, i) ==
    IF i = TableEntries THEN st
    ELSE ps_fill_pdpt(ps_fill_pd([st EXCEPT !.ps.pdpt[i] =
                                      mapped(@, npt, env.ps_pa.pd[i])],
                                 npt, i, 0),
                      npt, i + 1)

\* Lines 65-109.
build_identity_internal(ps, npt) ==
    ps_fill_pdpt([ps |-> [ps EXCEPT !.pml4[0] = mapped(@, npt, env.ps_pa.pdpt)],
                  pa |-> 0],
                 npt, 0).ps

\* Lines 37-41 (npt = FALSE), and the call for nested paging (npt = TRUE).
PagingBuildIdentity ==
    /\ pc = "ps_zeroed"
    /\ \E npt \in BOOLEAN :
           /\ paging_structures' = build_identity_internal(paging_structures, npt)
           /\ call' = [fn |-> "build_identity_internal", control |-> "none",
                       arg |-> npt]
           /\ log' = Append(log, Op("build_identity_internal",
                                    IF npt THEN {0} ELSE {}))
    /\ pc' = "ps_built"
    /\ ret' = Returned({})
    /\ UNCHANGED <<msr, cr0, cr4, env, vmcs, registers, epts,
                   APIC_ID_MAP, PROCESSOR_COUNT, cpus, SHARED_GUEST_DATA>>

\* The table of the paging structures that lies in the page frame `frame`.
PsTableAt(ps, frame) ==
    IF frame = env.ps_pa.pml4 \div BASE_PAGE_SIZE THEN ps.pml4
    ELSE IF frame = env.ps_pa.pdpt \div BASE_PAGE_SIZE THEN ps.pdpt
    ELSE IF frame = env.ps_pa.pt \div BASE_PAGE_SIZE THEN ps.pt
    ELSE IF \E i \in Indices : frame = env.ps_pa.pd[i] \div BASE_PAGE_SIZE
         THEN ps.pd[CHOOSE i \in Indices :
                        frame = env.ps_pa.pd[i] \div BASE_PAGE_SIZE]
         ELSE ZeroTable

\* The walk of the CPU from the PML4: the entries it reads, whether all
\* are present, writable, user, the size of the page and the address.
ps_walk(ps, va) ==
    LET pml4e == ps.pml4[Index(3, va)]
        pdpte == PsTableAt(ps, ToInt(pfn(pml4e)))[Index(2, va)]
        pde == PsTableAt(ps, ToInt(pfn(pdpte)))[Index(1, va)]
        pte == PsTableAt(ps, ToInt(pfn(pde)))[Index(0, va)]
        path == IF large(pde) THEN <<pml4e, pdpte, pde>>
                ELSE <<pml4e, pdpte, pde, pte>>
        leaf == path[Len(path)]
        size == IF large(pde) THEN LARGE_PAGE_SIZE ELSE BASE_PAGE_SIZE
    IN  [va |-> va, levels |-> Len(path), size |-> size,
         present |-> \A n \in 1..Len(path) : 0 \in path[n],
         writable |-> \A n \in 1..Len(path) : 1 \in path[n],
         user |-> \A n \in 1..Len(path) : 2 \in path[n],
         pa |-> ToInt(pfn(leaf)) * BASE_PAGE_SIZE + (va % size)]

\* The host, or the guest under nested paging, accesses an address; the
\* EPTs of the guest are built after that.
PagingWalk ==
    /\ pc = "ps_built"
    /\ pc' = "ept_zeroed"
    /\ \E va \in WalkSamples :
           ret' = [kind |-> "walk", value |-> ps_walk(paging_structures, va)]
    /\ UNCHANGED <<msr, cr0, cr4, env, vmcs, registers, call, log, epts,
                   APIC_ID_MAP, PROCESSOR_COUNT, cpus, SHARED_GUEST_DATA,
                   paging_structures>>

NextPaging == PagingBuildIdentity \/ PagingWalk \/ BuildIdentity \/ Translate

----------------------------------------------------------------------------
(* regs() and the driver between two run() calls                           *)

\* The kinds of exit that carry a next_rip.
InstructionKinds == {"Cpuid", "Rdmsr", "Wrmsr", "XSetBv"}

\* Lines 144-146: the driver takes the snapshot through regs() and, having
\* emulated the instruction of the exit run() returned, stores next_rip
\* into RIP and a result into RAX. It does so for at most MaxAdvance bytes
\* beyond the RIP the guest was captured at or was started at by a SIPI.
Regs ==
    /\ pc = "ready"
    /\ ret.kind \in InstructionKinds
    /\ ret.value \subseteq 0..30
    /\ \E start \in {env.capture.rip, {}} :
           /\ ToInt(start) <= ToInt(ret.value)
           /\ ToInt(ret.value) <= ToInt(start) + MaxAdvance
    /\ \E rax \in {registers.rax, Bits(\h16)} :
           registers' = [registers EXCEPT !.rip = ret.value, !.rax = rax]
    /\ ret' = Returned({})
    /\ UNCHANGED <<pc, msr, cr0, cr4, env, vmcs, call, log, epts,
                   APIC_ID_MAP, PROCESSOR_COUNT, cpus, SHARED_GUEST_DATA, paging_structures>>

NextDriver == Enable \/ New \/ Activate \/ Initialize \/ Run \/ Regs

----------------------------------------------------------------------------
(* The APIC-ID registry (apic_id.rs) and run_on_all_processors (ops.rs)     *)

\* Lines 14-18: the initial APIC ID of the CPU that executes the call, bits
\* 31:24 of CPUID.1:EBX, as a u8.
get(ebx) == ToInt({b - 24 : b \in {x \in ebx : x >= 24 /\ x <= 31}})

\* BTreeMap::insert: the entry takes the place of one of the same key, and
\* the value it replaced (none: the empty set) is returned.
insert(map, key, value) ==
    LET old == {e \in map : e.key = key}
    IN  [map |-> (map \ old) \cup {[key |-> key, value |-> value]},
         previous |-> {e.value : e \in old}]

\* The callback that inserts without looking at what insert returned.
callback_unchecked(st, ebx) ==
    [map |-> insert(st.map, get(ebx), st.count).map,
     count |-> st.count + 1,
     panic |-> FALSE]

\* Lines 22-28: the callback of init. get() and fetch_add(1) are evaluated,
\* the entry is inserted, and only then is the result asserted to be None.
callback(st, ebx) ==
    LET inserted == insert(st.map, get(ebx), st.count)
    IN  [map |-> inserted.map,
         count |-> st.count + 1,
         panic |-> inserted.previous # {}]

\* ops.rs lines 16-40: the callback runs once for each index below
\* processor_count(), one index after the other, on the CPU the thread runs
\* on after the affinity request (env.cpuid_1_ebx[index] is the EBX it reads
\* there; the result of KeSetSystemGroupAffinityThread is not looked at).
processor_count == Len(env.cpuid_1_ebx)

RECURSIVE run_on_all_processors(_, _)
run_on_all_processors(st, index) ==
    IF index > processor_count \/ st.panic THEN st
    ELSE run_on_all_processors(callback(st, env.cpuid_1_ebx[index]), index + 1)

\* Lines 20-29: apic_id::init, on a fresh registry or once more.
init ==
    /\ pc \in {"apic_boot", "apic_ready"}
    /\ IF PROCESSOR_COUNT # 0
       THEN /\ pc' = "fatal"
            /\ ret' = Panicked
            /\ log' = log \o <<Op("apic_id::init", {}),
                               Op("panic: PROCESSOR_COUNT", {})>>
            /\ UNCHANGED <<APIC_ID_MAP, PROCESSOR_COUNT>>
       ELSE LET done == run_on_all_processors([map |-> APIC_ID_MAP,
                                               count |-> PROCESSOR_COUNT,
                                               panic |-> FALSE], 1)
            IN  /\ APIC_ID_MAP' = done.map
                /\ PROCESSOR_COUNT' = done.count
                /\ pc' = IF done.panic THEN "fatal" ELSE "apic_ready"
                /\ ret' = IF done.panic THEN Panicked ELSE Returned({})
                /\ log' = log \o <<Op("apic_id::init", {})>>
                             \o (IF done.panic THEN <<Op("panic: insert", {})>>
                                 ELSE <<>>)
    /\ UNCHANGED <<msr, cr0, cr4, env, vmcs, registers, call, epts, cpus, SHARED_GUEST_DATA, paging_structures>>

\* Lines 31-34: the processor id registered for an APIC ID, if any.
processor_id_from(apic_id) ==
    {e.value : e \in {x \in APIC_ID_MAP : x.key = apic_id}}

ProcessorIdFrom ==
    /\ pc = "apic_ready"
    /\ \E apic_id \in {0, 1, 2, 255} :
           /\ call' = [fn |-> "processor_id_from", control |-> "none",
                       arg |-> apic_id]
           /\ ret' = Returned(processor_id_from(apic_id))
    /\ UNCHANGED <<pc, msr, cr0, cr4, env, vmcs, registers, log, epts,
                   APIC_ID_MAP, PROCESSOR_COUNT, cpus, SHARED_GUEST_DATA, paging_structures>>

NextApic == init \/ ProcessorIdFrom

----------------------------------------------------------------------------
(* SHARED_GUEST_DATA (guest.rs lines 634-647) and the CPUs that share it    *)

\* The latch before its first access: nothing is allocated.
Uninit ==
    [status |-> "Incomplete", msr_bitmaps |-> NoValue, msr_bitmaps_pa |-> NoValue,
     eptp |-> NoValue, constructions |-> 0]

\* pa() of the boxes the k-th run of the initializer allocates, and the EPTP
\* made of the second: the platform's addresses for the first run, pages
\* elsewhere for any later one.
Allocated(k) ==
    IF k = 1 THEN [msr_bitmaps_pa |-> env.msr_bitmaps_pa, eptp |-> env.eptp]
    ELSE [msr_bitmaps_pa |-> env.msr_bitmaps_pa \cup {30 + k},
          eptp |-> env.eptp \cup {30 + k}]

\* A Lazy that runs its initializer on every access.
force_unlatched(shared) ==
    IF shared.status = "Running" THEN "spin" ELSE "construct"

\* spin::Lazy (line 639): what a dereference does in each state of the
\* latch. Only the first access runs the initializer; an access during that
\* run spins; an access after a panicked run panics.
force(shared) ==
    CASE shared.status = "Incomplete" -> "construct"
      [] shared.status = "Running" -> "spin"
      [] shared.status = "Complete" -> "read"
      [] shared.status = "Panicked" -> "panic"

\* Lines 215-218: the two fields initialize_control fills from the data.
shared_guest_data_writes(shared) ==
    <<Write("control::MSR_BITMAPS_ADDR_FULL", shared.msr_bitmaps_pa),
      Write("control::EPTP_FULL", shared.eptp)>>

\* initialize() of one CPU (lines 81-86), with the shared data it read.
initialize(shared) ==
    SubSeq(initialize_control, 1, Len(ControlOrder))
    \o shared_guest_data_writes(shared)
    \o initialize_guest(env.capture) \o initialize_host

Cpus == DOMAIN cpus

\* CPU c is in initialize_control, at its dereference of SHARED_GUEST_DATA.
Access(c) ==
    /\ cpus[c].pc = "deref"
    /\ LET todo == force(SHARED_GUEST_DATA)
       IN  /\ todo # "spin"
           /\ CASE todo = "construct" ->
                     /\ SHARED_GUEST_DATA' =
                            [SHARED_GUEST_DATA EXCEPT !.status = "Running"]
                     /\ cpus' = [cpus EXCEPT ![c].pc = "constructing"]
                [] todo = "read" ->
                     LET steps == initialize(SHARED_GUEST_DATA)
                     IN  \E fail_at \in FailPoints(steps) :
                           /\ cpus' = [cpus EXCEPT
                                  ![c].vmcs = AfterSteps(@, steps,
                                                  Executed(steps, fail_at)),
                                  ![c].pc = IF Completes(steps, fail_at)
                                            THEN "ready" ELSE "fatal"]
                           /\ UNCHANGED SHARED_GUEST_DATA
                [] todo = "panic" ->
                     /\ cpus' = [cpus EXCEPT ![c].pc = "fatal"]
                     /\ UNCHANGED SHARED_GUEST_DATA
    /\ UNCHANGED <<pc, msr, cr0, cr4, env, vmcs, registers, ret, call, log, epts,
                   APIC_ID_MAP, PROCESSOR_COUNT, paging_structures>>

\* Lines 639-647: the initializer, run by the CPU that found the latch open.
Construct(c) ==
    /\ cpus[c].pc = "constructing"
    /\ LET built == build_identity(ZeroedEpts)
           k == SHARED_GUEST_DATA.constructions + 1
       IN  /\ epts' = built.epts
           /\ IF built.panic
              THEN /\ SHARED_GUEST_DATA' =
                          [SHARED_GUEST_DATA EXCEPT !.status = "Panicked"]
                   /\ cpus' = [cpus EXCEPT ![c].pc = "fatal"]
              ELSE /\ SHARED_GUEST_DATA' =
                          [status |-> "Complete",
                           msr_bitmaps |-> {},
                           msr_bitmaps_pa |-> Allocated(k).msr_bitmaps_pa,
                           eptp |-> Allocated(k).eptp,
                           constructions |-> k]
                   /\ cpus' = [cpus EXCEPT ![c].pc = "deref"]
    /\ UNCHANGED <<pc, msr, cr0, cr4, env, vmcs, registers, ret, call, log,
                   APIC_ID_MAP, PROCESSOR_COUNT, paging_structures>>

\* run() of CPU c: the VM-entry, and the VM-exit that gives the CPU back.
VmEntry(c) ==
    /\ cpus[c].pc \in {"ready", "host"}
    /\ cpus' = [cpus EXCEPT ![c].pc = "guest"]
    /\ UNCHANGED <<pc, msr, cr0, cr4, env, vmcs, registers, ret, call, log, epts,
                   APIC_ID_MAP, PROCESSOR_COUNT, SHARED_GUEST_DATA, paging_structures>>

VmExit(c) ==
    /\ cpus[c].pc = "guest"
    /\ cpus' = [cpus EXCEPT ![c].pc = "host"]
    /\ UNCHANGED <<pc, msr, cr0, cr4, env, vmcs, registers, ret, call, log, epts,
                   APIC_ID_MAP, PROCESSOR_COUNT, SHARED_GUEST_DATA, paging_structures>>

NextShared ==
    \E c \in Cpus : Access(c) \/ Construct(c) \/ VmEntry(c) \/ VmExit(c)

----------------------------------------------------------------------------
(* The platform the CPU boots on.                                          *)

MsrNames == {"IA32_VMX_BASIC",
             "IA32_VMX_PINBASED_CTLS", "IA32_VMX_TRUE_PINBASED_CTLS",
             "IA32_VMX_PROCBASED_CTLS", "IA32_VMX_TRUE_PROCBASED_CTLS",
             "IA32_VMX_EXIT_CTLS", "IA32_VMX_TRUE_EXIT_CTLS",
             "IA32_VMX_ENTRY_CTLS", "IA32_VMX_TRUE_ENTRY_CTLS",
             "IA32_VMX_PROCBASED_CTLS2", "IA32_VMX_PROCBASED_CTLS3",
             "IA32_VMX_CR0_FIXED0", "IA32_VMX_CR0_FIXED1",
             "IA32_VMX_CR4_FIXED0", "IA32_VMX_CR4_FIXED1",
             "IA32_FEATURE_CONTROL", "IA32_FS_BASE", "IA32_GS_BASE",
             "IA32_SYSENTER_CS", "IA32_SYSENTER_EIP", "IA32_SYSENTER_ESP"}

CapabilityMsrs == {cap_msr(c, t) : c \in VmxControl, t \in BOOLEAN}

\* A CPU that supports everything initialize_control requests.
BaseMsr ==
    [m \in MsrNames |->
        CASE m = "IA32_VMX_BASIC" -> {0, 2, 55}
          [] m \in CapabilityMsrs -> Cap({}, U32)
          [] m = "IA32_VMX_CR0_FIXED0" -> {0, 5, 31}
          [] m = "IA32_VMX_CR0_FIXED1" -> U32
          [] m = "IA32_VMX_CR4_FIXED0" -> {13}
          [] m = "IA32_VMX_CR4_FIXED1" -> 0..22
          [] m = "IA32_FEATURE_CONTROL" -> {0, 2}
          [] m = "IA32_GS_BASE" -> {12, 47}
          [] m = "IA32_SYSENTER_CS" -> Bits(\h10)
          [] m = "IA32_SYSENTER_EIP" -> {13, 47}
          [] m = "IA32_SYSENTER_ESP" -> {14, 47}
          [] OTHER -> {}]

BaseCr0 == {0, 4, 5, 16, 31}
BaseCr4 == {5, 7, 9}

BaseSel ==
    [s \in Segments |->
        CASE s = "CS" -> Bits(\h10)
          [] s = "SS" -> Bits(\h18)
          [] s = "FS" -> Bits(\h53)
          [] s = "TR" -> Bits(\h40)
          [] s = "LDTR" -> {}
          [] OTHER -> Bits(\h2B)]

BaseLar ==
    [s \in Segments |->
        CASE s = "CS" -> Bits(\h209B00)
          [] s = "TR" -> Bits(\h8B00)
          [] s = "LDTR" -> {}
          [] OTHER -> Bits(\hCF9300)]

BaseLsl == [s \in Segments |-> IF s = "TR" THEN Bits(\h67) ELSE U32]

Exit(reason, qualification, instruction_len, rip, gpr) ==
    [reason |-> reason, qualification |-> qualification,
     instruction_len |-> instruction_len, rip |-> rip,
     rsp |-> Bits(\h8000), rflags |-> {1, 6}, gpr |-> gpr]

\* An exit at the first instruction the guest executes after the VM-entry.
ExitAtResume(reason, instruction_len, gpr) ==
    [reason |-> reason, qualification |-> {},
     instruction_len |-> instruction_len, rip |-> NoValue,
     rsp |-> NoValue, rflags |-> NoValue, gpr |-> gpr]

\* A few exits, one of each kind.
FewExits ==
    {Exit(VMX_EXIT_REASON_INIT, {}, {}, Bits(\h1000), Bits(\h1234)),
     Exit(VMX_EXIT_REASON_SIPI, Bits(\h12), {}, Bits(\hFFF0), {}),
     Exit(VMX_EXIT_REASON_CPUID, {}, Bits(2), Bits(\h1000), Bits(\h1234)),
     Exit({}, {}, {}, Bits(\h1000), {})}

\* SharedHostData::gdts when it is None.
NoGdts == [some |-> FALSE, gdt_base |-> NoValue, tr |-> NoValue, tss_base |-> NoValue]

\* The MTRRs as the intervals Mtrr::new makes of them: [first, end) and
\* the memory type (0: UC, 1: WC, 4: WT, 5: WP, 6: WB).
Interval(first, end, type) == [first |-> first, end |-> end, type |-> type]

WriteBackEverywhere == {Interval(0, AddressSpace, 6)}

\* platform_ops::pa of the four parts of an Epts that lies in physically
\* contiguous pages from `base` on.
ContiguousEpts(base) ==
    [pml4 |-> base,
     pdpt |-> base + BASE_PAGE_SIZE,
     pd |-> [i \in Indices |-> base + (2 + i) * BASE_PAGE_SIZE],
     pt |-> base + (2 + TableEntries) * BASE_PAGE_SIZE]

BaseEnv ==
    [id |-> 0,
     sel |-> BaseSel,
     lar |-> BaseLar,
     lsl |-> BaseLsl,
     gdtr |-> [base |-> {16, 47}, limit |-> Bits(\h7F)],
     idtr |-> [base |-> {17, 47}, limit |-> Bits(\hFFF)],
     tr_descriptor_base |-> {18, 47},
     cr3 |-> {12, 13, 20},
     shared_host |-> [set |-> TRUE, pt |-> NoValue, gdts |-> NoGdts, idt |-> NoValue],
     msr_bitmaps_pa |-> {12, 21},
     eptp |-> {1, 2, 3, 4, 13, 21},
     capture |-> [DefaultRegisters EXCEPT !.rip = Bits(\h1000),
                                         !.rsp = Bits(\h8000),
                                         !.rflags = {1, 9},
                                         !.rax = Bits(1)],
     extended_model_id |-> Bits(9),
     mtrr |-> WriteBackEverywhere,
     epts_pa |-> ContiguousEpts(256 * BASE_PAGE_SIZE),
     overflow_checks |-> TRUE,
     cpuid_1_ebx |-> <<{11}>>,
     ps_pa |-> ContiguousEpts(512 * BASE_PAGE_SIZE),
     exits |-> FewExits]

\* The CPU at driver load, on platform e with MSRs m and live CR0/CR4 c0/c4.
Boot(e, m, c0, c4) ==
    /\ pc = "boot"
    /\ msr = m
    /\ cr0 = c0
    /\ cr4 = c4
    /\ env = e
    /\ vmcs = ClearVmcs
    /\ registers = DefaultRegisters
    /\ ret = NotCalled
    /\ call = NoCall
    /\ log = <<>>
    /\ epts = ZeroedEpts
    /\ paging_structures = ZeroedPagingStructures
    /\ cpus = <<>> /\ SHARED_GUEST_DATA = Uninit
    /\ APIC_ID_MAP = {} /\ PROCESSOR_COUNT = 0

----------------------------------------------------------------------------
(* Spec: the bring-up and the dispatch loop of one CPU on the base         *)
(* platform, under a wide choice of VM-exits.                              *)

ManyExits ==
    {Exit(r, {}, l, rip, Bits(\h1234)) :
        r \in {VMX_EXIT_REASON_CPUID, VMX_EXIT_REASON_RDMSR,
               VMX_EXIT_REASON_WRMSR, VMX_EXIT_REASON_XSETBV},
        l \in {Bits(2), Bits(3)}, rip \in {Bits(\h1000), Bits(\h2000)}}
    \cup {Exit(r, {}, {}, Bits(\h1000), g) :
        r \in {VMX_EXIT_REASON_INIT, VMX_EXIT_REASON_INIT \cup {27}},
        g \in {{}, Bits(\h1234)}}
    \cup {Exit(VMX_EXIT_REASON_CPUID, {}, Bits(2), U64 \ {0}, {})}
    \cup {Exit(VMX_EXIT_REASON_SIPI, q, {}, Bits(\hFFF0), {}) :
        q \in {Bits(\h12), Bits(\hFF)}}
    \cup {Exit(r, {}, {}, Bits(\h1000), {}) :
        r \in {{}, Bits(33) \cup {31}, Bits(48)}}

Init ==
    \E ug \in BOOLEAN, overflow_checks \in BOOLEAN :
        Boot([BaseEnv EXCEPT !.exits = ManyExits,
                             !.overflow_checks = overflow_checks],
             [BaseMsr EXCEPT !["IA32_VMX_PROCBASED_CTLS2"] =
                 Cap({}, IF ug THEN U32 ELSE U32 \ UNRESTRICTED_GUEST)],
             BaseCr0, BaseCr4)

Spec == Init /\ [][Next]_vars

----------------------------------------------------------------------------
(* SpecCtl: the same machine on CPUs whose capability MSRs vary.           *)

\* The bit positions the capability MSR of a control is varied at: bits
\* initialize_control requests, and bits it does not.
CtlBitOrder(control) ==
    CASE control = "VmExit" -> <<9, 0, 2, 15>>
      [] control = "VmEntry" -> <<9, 0, 2, 15>>
      [] control = "PinBased" -> <<0, 1, 3, 5>>
      [] control = "ProcessorBased" -> <<28, 0, 31, 7>>
      [] control = "ProcessorBased2" -> <<7, 0, 1, 3>>

CtlPool(control) == FirstOf(CtlBitOrder(control), MaxCapBits)

\* The MSRs of a CPU whose capability MSR for `control` (the variant that
\* IA32_VMX_BASIC bit 55 selects) has the halves low and high at the pool's
\* bits and leaves every other bit free; the variant not selected allows
\* nothing. A must-be-1 bit is a may-be-1 bit on every CPU.
CtlMsr(control, true_supported, low, high) ==
    [BaseMsr EXCEPT
        !["IA32_VMX_BASIC"] = IF true_supported THEN {0, 2, 55} ELSE {0, 2},
        ![cap_msr(control, ~true_supported)] = Cap({}, {}),
        ![cap_msr(control, true_supported)] =
            Cap(low, high \cup (U32 \ CtlPool(control)))]

InitCtl ==
    \E control \in {ControlOrder[i] : i \in 1..Len(ControlOrder)},
       true_supported \in BOOLEAN :
        \E high \in SUBSET CtlPool(control) : \E low \in SUBSET high :
            Boot(BaseEnv, CtlMsr(control, true_supported, low, high),
                 BaseCr0, BaseCr4)

SpecCtl == InitCtl /\ [][Next]_vars

----------------------------------------------------------------------------
(* SpecHost: the same machine under varying live selectors and host        *)
(* GDT/TSS overrides.                                                      *)

SelBitOrder == <<0, 1, 2, 3, 15, 4>>
SelSamples == SUBSET FirstOf(SelBitOrder, MaxSelBits)

Override(tr, tss_base) ==
    [some |-> TRUE, gdt_base |-> {19, 47}, tr |-> tr, tss_base |-> tss_base]

\* A platform whose LDTR holds a selector: an LDT of 4 KiB is loaded.
LiveLdtEnv ==
    [BaseEnv EXCEPT !.sel["LDTR"] = Bits(\h60),
                    !.lar["LDTR"] = Bits(\h8200),
                    !.lsl["LDTR"] = Bits(\hFFF)]

HostEnvs ==
    {[BaseEnv EXCEPT !.sel[s] = v] : s \in HostSegments, v \in SelSamples}
    \cup {[BaseEnv EXCEPT !.shared_host.gdts = Override(v, {20, 47}),
                          !.shared_host.pt = {12, 22},
                          !.shared_host.idt = {12, 23}] : v \in SelSamples}
    \cup {[BaseEnv EXCEPT !.shared_host.gdts = Override(NoValue, {20, 47})],
          [BaseEnv EXCEPT !.shared_host.gdts = Override(Bits(\h40), NoValue)],
          [BaseEnv EXCEPT !.shared_host.set = FALSE],
          [BaseEnv EXCEPT !.tr_descriptor_base = NoValue],
          LiveLdtEnv}

InitHost == \E e \in HostEnvs : Boot(e, BaseMsr, BaseCr0, BaseCr4)

SpecHost == InitHost /\ [][Next]_vars

----------------------------------------------------------------------------
(* SpecEnable: the same machine under varying CR0, CR4, VMX-fixed MSRs and *)
(* IA32_FEATURE_CONTROL.                                                   *)

CrBitOrder == <<0, 31, 13, 5>>
CrPool == FirstOf(CrBitOrder, MaxCrBits)
CrSamples == (SUBSET CrPool) \cup {U64}

FixedMsr(which, fixed0, fixed1) ==
    IF which = "cr0"
    THEN [BaseMsr EXCEPT !["IA32_VMX_CR0_FIXED0"] = fixed0,
                         !["IA32_VMX_CR0_FIXED1"] = fixed1]
    ELSE [BaseMsr EXCEPT !["IA32_VMX_CR4_FIXED0"] = fixed0,
                         !["IA32_VMX_CR4_FIXED1"] = fixed1]

FeatureControlSamples == SUBSET {0, 1, 2}

InitEnable ==
    \/ \E which \in {"cr0", "cr4"}, cr \in CrSamples,
          fixed0 \in CrSamples, fixed1 \in CrSamples :
            Boot(BaseEnv, FixedMsr(which, fixed0, fixed1),
                 IF which = "cr0" THEN cr ELSE BaseCr0,
                 IF which = "cr4" THEN cr ELSE BaseCr4)
    \/ \E feature_control \in FeatureControlSamples :
            Boot(BaseEnv,
                 [BaseMsr EXCEPT !["IA32_FEATURE_CONTROL"] = feature_control],
                 BaseCr0, BaseCr4)

SpecEnable == InitEnable /\ [][Next]_vars

----------------------------------------------------------------------------
(* SpecCalls: single calls of the pure helpers, over families of           *)
(* arguments and of the MSR values they read.                              *)

Call(fn, control, arg) == [fn |-> fn, control |-> control, arg |-> arg]

\* A pending call on a CPU with MSRs m and current VMCS v.
PendingOn(c, m, v) ==
    /\ pc = "call"
    /\ call = c
    /\ msr = m
    /\ cr0 = BaseCr0
    /\ cr4 = BaseCr4
    /\ env = BaseEnv
    /\ vmcs = v
    /\ registers = DefaultRegisters
    /\ ret = NotCalled
    /\ log = <<>>
    /\ epts = ZeroedEpts
    /\ paging_structures = ZeroedPagingStructures
    /\ cpus = <<>> /\ SHARED_GUEST_DATA = Uninit
    /\ APIC_ID_MAP = {} /\ PROCESSOR_COUNT = 0

\* A pending call on a CPU with MSRs m.
Pending(c, m) == PendingOn(c, m, ClearVmcs)

\* A VMCS whose secondary processor-based controls are what
\* initialize_control requests, with or without unrestricted guest.
SecondaryControlsVmcs(unrestricted_guest) ==
    [ClearVmcs EXCEPT !["control::SECONDARY_PROCBASED_EXEC_CONTROLS"] =
        IF unrestricted_guest THEN Requested("ProcessorBased2")
        ELSE Requested("ProcessorBased2") \ UNRESTRICTED_GUEST]

\* Native access rights (the LAR format): bits that the re-encoding keeps,
\* drops, masks and moves onto bit 16.
NativeBitOrder == <<8, 15, 16, 20, 24, 0, 23, 31>>
NativeSamples ==
    (SUBSET FirstOf(NativeBitOrder, MaxNativeBits))
    \cup {Bits(\hCF9B), Bits(\hCF9B00), U32}

AdjBitOrder == <<0, 1, 2, 31>>
AdjPool == FirstOf(AdjBitOrder, MaxCapBits)
HalfSamples == (SUBSET AdjPool) \cup {Bits(\h16), Bits(\h4), U32}
RequestedSamples == (SUBSET AdjPool) \cup {Bits(\h3), {32}, {0, 32}}

\* The MSRs of a CPU whose capability MSR for `control` (the variant that
\* IA32_VMX_BASIC bit 55 selects) is low/high, the other variant holding
\* the complement of each half.
AdjMsr(control, true_supported, low, high) ==
    [BaseMsr EXCEPT
        !["IA32_VMX_BASIC"] = IF true_supported THEN {0, 2, 55} ELSE {0, 2},
        ![cap_msr(control, ~true_supported)] = Cap(U32 \ low, U32 \ high),
        ![cap_msr(control, true_supported)] = Cap(low, high)]

InitCalls ==
    \/ \E native \in NativeSamples :
            Pending(Call("access_rights", "none", native), BaseMsr)
    \/ \E control \in VmxControl, true_supported \in BOOLEAN,
          low \in HalfSamples, high \in HalfSamples,
          requested \in RequestedSamples :
            Pending(Call("adjust_vmx_control", control, requested),
                    AdjMsr(control, true_supported, low, high))
    \/ \E which \in {"cr0", "cr4"}, cr \in CrSamples,
          fixed0 \in CrSamples, fixed1 \in CrSamples :
            Pending(Call("get_adjusted_" \o which, "none", cr),
                    FixedMsr(which, fixed0, fixed1))
    \/ \E unrestricted_guest \in BOOLEAN,
          fixed0 \in CrSamples, fixed1 \in CrSamples :
            PendingOn(Call("get_adjusted_guest_cr0", "none", CR0_EXTENSION_TYPE),
                      FixedMsr("cr0", fixed0, fixed1),
                      SecondaryControlsVmcs(unrestricted_guest))
    \/ \E fixed0 \in CrSamples, fixed1 \in CrSamples :
            Pending(Call("get_adjusted_guest_cr4", "none", {}),
                    FixedMsr("cr4", fixed0, fixed1))

Return(value) ==
    /\ ret' = value
    /\ pc' = "returned"
    /\ UNCHANGED <<msr, cr0, cr4, env, vmcs, registers, call, log, epts, APIC_ID_MAP, PROCESSOR_COUNT, cpus, SHARED_GUEST_DATA, paging_structures>>

CallAccessRights ==
    /\ pc = "call"
    /\ call.fn = "access_rights"
    /\ Return(Returned(access_rights(call.arg)))

CallAdjustVmxControl ==
    /\ pc = "call"
    /\ call.fn = "adjust_vmx_control"
    /\ Return(adjust_vmx_control(call.control, call.arg))

CallGetAdjustedCr ==
    /\ pc = "call"
    /\ \/ /\ call.fn = "get_adjusted_cr0"
          /\ Return(Returned(get_adjusted_cr0(call.arg)))
       \/ /\ call.fn = "get_adjusted_cr4"
          /\ Return(Returned(get_adjusted_cr4(call.arg)))

\* The two calls of handle_init_signal, lines 485 and 489.
CallGetAdjustedGuestCr ==
    /\ pc = "call"
    /\ \/ /\ call.fn = "get_adjusted_guest_cr0"
          /\ Return(Returned(get_adjusted_guest_cr0(vmcs, call.arg)))
       \/ /\ call.fn = "get_adjusted_guest_cr4"
          /\ Return(Returned(get_adjusted_guest_cr4(call.arg)))

NextCalls ==
    \/ CallAccessRights
    \/ CallAdjustVmxControl
    \/ CallGetAdjustedCr
    \/ CallGetAdjustedGuestCr

SpecCalls == InitCalls /\ [][NextCalls]_vars

----------------------------------------------------------------------------
(* SpecEpt: build_identity under families of MTRRs and of physical         *)
(* placements of the tables, and the walks of the built tables.            *)

\* Legacy low memory: the first two pages are UC, the rest is WB.
LowUncacheable ==
    {Interval(0, 2 * BASE_PAGE_SIZE, 0),
     Interval(2 * BASE_PAGE_SIZE, AddressSpace, 6)}

\* A device window of two large pages, and a WC frame buffer at the top.
DeviceWindow ==
    {Interval(0, LARGE_PAGE_SIZE, 6),
     Interval(LARGE_PAGE_SIZE, 3 * LARGE_PAGE_SIZE, 0),
     Interval(3 * LARGE_PAGE_SIZE, AddressSpace - LARGE_PAGE_SIZE, 4),
     Interval(AddressSpace - LARGE_PAGE_SIZE, AddressSpace, 1)}

\* A type changes inside a large page above the first one.
SplitLargePage ==
    {Interval(0, LARGE_PAGE_SIZE + BASE_PAGE_SIZE, 6),
     Interval(LARGE_PAGE_SIZE + BASE_PAGE_SIZE, AddressSpace, 0)}

\* A type changes inside a 4 KiB page of the first large page.
SplitBasePage ==
    {Interval(0, BASE_PAGE_SIZE + 512, 0),
     Interval(BASE_PAGE_SIZE + 512, AddressSpace, 6)}

\* The MTRRs leave the top of the address space without a type.
UncoveredTop == {Interval(0, AddressSpace - BASE_PAGE_SIZE, 6)}

MtrrSamples ==
    {WriteBackEverywhere, LowUncacheable, DeviceWindow, SplitLargePage,
     SplitBasePage, UncoveredTop}

\* An Epts whose pages lie apart and in the reverse order in physical memory.
ScatteredEpts(base) ==
    [pml4 |-> base + 64 * BASE_PAGE_SIZE,
     pdpt |-> base + 48 * BASE_PAGE_SIZE,
     pd |-> [i \in Indices |-> base + (32 - 2 * i) * BASE_PAGE_SIZE],
     pt |-> base]

EptsPaSamples ==
    {ContiguousEpts(256 * BASE_PAGE_SIZE), ContiguousEpts(8 * BASE_PAGE_SIZE),
     ScatteredEpts(512 * BASE_PAGE_SIZE)}

InitEpt ==
    \E mtrr \in MtrrSamples, epts_pa \in EptsPaSamples :
        /\ pc = "ept_zeroed"
        /\ msr = BaseMsr
        /\ cr0 = BaseCr0
        /\ cr4 = BaseCr4
        /\ env = [BaseEnv EXCEPT !.mtrr = mtrr, !.epts_pa = epts_pa]
        /\ vmcs = ClearVmcs
        /\ registers = DefaultRegisters
        /\ ret = NotCalled
        /\ call = NoCall
        /\ log = <<>>
        /\ epts = ZeroedEpts
        /\ paging_structures = ZeroedPagingStructures
        /\ cpus = <<>> /\ SHARED_GUEST_DATA = Uninit
        /\ APIC_ID_MAP = {} /\ PROCESSOR_COUNT = 0

SpecEpt == InitEpt /\ [][NextEpt]_vars

----------------------------------------------------------------------------
(* SpecApic: apic_id::init over the CPUs of the platform, and the lookups   *)
(* that follow it.                                                          *)

\* CPUID.1:EBX as read on a CPU: APIC IDs 0, 1, 2 and 255, and a second
\* CPU that reports APIC ID 0.
EbxSamples == {{11}, {11, 24}, {11, 25}, {11, 16} \cup 24..31, {11, 16}}

RECURSIVE EbxLists(_)
EbxLists(n) ==
    IF n = 0 THEN {<<>>}
    ELSE {Append(l, ebx) : l \in EbxLists(n - 1), ebx \in EbxSamples}

InitApic ==
    \E n \in 1..MaxCpus : \E ebxs \in EbxLists(n) :
        /\ pc = "apic_boot"
        /\ msr = BaseMsr
        /\ cr0 = BaseCr0
        /\ cr4 = BaseCr4
        /\ env = [BaseEnv EXCEPT !.cpuid_1_ebx = ebxs]
        /\ vmcs = ClearVmcs
        /\ registers = DefaultRegisters
        /\ ret = NotCalled
        /\ call = NoCall
        /\ log = <<>>
        /\ epts = ZeroedEpts
        /\ paging_structures = ZeroedPagingStructures
        /\ cpus = <<>> /\ SHARED_GUEST_DATA = Uninit
        /\ APIC_ID_MAP = {} /\ PROCESSOR_COUNT = 0

SpecApic == InitApic /\ [][NextApic]_vars

----------------------------------------------------------------------------
(* SpecShared: the CPUs of the platform go through initialize() and run()   *)
(* in any interleaving, and share SHARED_GUEST_DATA.                        *)

InitShared ==
    \E n \in 2..MaxCpus : \E mtrr \in {WriteBackEverywhere, DeviceWindow, SplitLargePage} :
        /\ pc = "boot"
        /\ msr = BaseMsr
        /\ cr0 = BaseCr0
        /\ cr4 = BaseCr4
        /\ env = [BaseEnv EXCEPT !.mtrr = mtrr]
        /\ vmcs = ClearVmcs
        /\ registers = DefaultRegisters
        /\ ret = NotCalled
        /\ call = NoCall
        /\ log = <<>>
        /\ epts = ZeroedEpts
        /\ paging_structures = ZeroedPagingStructures
        /\ APIC_ID_MAP = {} /\ PROCESSOR_COUNT = 0
        /\ cpus = [c \in 1..n |-> [pc |-> "deref", vmcs |-> ClearVmcs]]
        /\ SHARED_GUEST_DATA = Uninit

SpecShared == InitShared /\ [][NextShared]_vars

----------------------------------------------------------------------------
(* SpecDriver: the dispatch loop of one CPU with the driver's use of        *)
(* regs() between two run() calls; the guest exits at the first            *)
(* instruction it resumes with, or with INIT or SIPI.                       *)

ResumeExits ==
    {ExitAtResume(r, l, Bits(\h1234)) :
        r \in {VMX_EXIT_REASON_CPUID, VMX_EXIT_REASON_RDMSR,
               VMX_EXIT_REASON_WRMSR, VMX_EXIT_REASON_XSETBV},
        l \in {Bits(2), Bits(3)}}
    \cup {Exit(VMX_EXIT_REASON_INIT, {}, {}, Bits(\h1000), {}),
          Exit(VMX_EXIT_REASON_SIPI, Bits(\h12), {}, Bits(\hFFF0), {})}

InitDriver ==
    Boot([BaseEnv EXCEPT !.exits = ResumeExits], BaseMsr, BaseCr0, BaseCr4)

SpecDriver == InitDriver /\ [][NextDriver]_vars

----------------------------------------------------------------------------
(* SpecPaging: the host paging structures and then the EPTs are built,     *)
(* each from zeroed tables, and walked.                                     *)

InitPaging ==
    \E mtrr \in {WriteBackEverywhere, LowUncacheable}, ps_pa \in EptsPaSamples :
        /\ pc = "ps_zeroed"
        /\ msr = BaseMsr
        /\ cr0 = BaseCr0
        /\ cr4 = BaseCr4
        /\ env = [BaseEnv EXCEPT !.mtrr = mtrr, !.ps_pa = ps_pa]
        /\ vmcs = ClearVmcs
        /\ registers = DefaultRegisters
        /\ ret = NotCalled
        /\ call = NoCall
        /\ log = <<>>
        /\ epts = ZeroedEpts
        /\ paging_structures = ZeroedPagingStructures
        /\ cpus = <<>> /\ SHARED_GUEST_DATA = Uninit
        /\ APIC_ID_MAP = {} /\ PROCESSOR_COUNT = 0

SpecPaging == InitPaging /\ [][NextPaging]_vars

----------------------------------------------------------------------------
(* The properties.                                                         *)

\* The capability MSRs by control kind, as the Intel SDM (A.3 - A.5) names
\* them: <<the non-TRUE MSR, the TRUE MSR>>.
CapMsrTable ==
    [PinBased |-> <<"IA32_VMX_PINBASED_CTLS", "IA32_VMX_TRUE_PINBASED_CTLS">>,
     ProcessorBased |-> <<"IA32_VMX_PROCBASED_CTLS", "IA32_VMX_TRUE_PROCBASED_CTLS">>,
     ProcessorBased2 |-> <<"IA32_VMX_PROCBASED_CTLS2", "IA32_VMX_PROCBASED_CTLS2">>,
     ProcessorBased3 |-> <<"IA32_VMX_PROCBASED_CTLS3", "IA32_VMX_PROCBASED_CTLS3">>,
     VmExit |-> <<"IA32_VMX_EXIT_CTLS", "IA32_VMX_TRUE_EXIT_CTLS">>,
     VmEntry |-> <<"IA32_VMX_ENTRY_CTLS", "IA32_VMX_TRUE_ENTRY_CTLS">>]

\* The value of the capability MSR that governs a control kind on this CPU.
Governing(control) ==
    msr[CapMsrTable[control][IF 55 \in msr["IA32_VMX_BASIC"] THEN 2 ELSE 1]]

LowHalf(m) == {b \in U32 : b \in m}
HighHalf(m) == {b \in U32 : b + 32 \in m}

AdjustReturned ==
    pc = "returned" /\ call.fn = "adjust_vmx_control"

\* C1 (as amended): every value written to a VMX control field has no bit
\* outside the allowed-1 half of its capability MSR, and has every bit of
\* the allowed-0 half, except that after a VM-entry the VM-entry controls
\* may lack bit 9 (IA-32e-mode-guest), which the INIT handler clears
\* without consulting the capability MSR.
C1_ControlsWithinCapabilities ==
    \A control \in VmxControl \ {"ProcessorBased3"} :
        LET v == vmcs[FieldOf(control)]
            allowed0 == LowHalf(Governing(control))
            allowed1 == HighHalf(Governing(control))
        IN  v # Unwritten =>
                /\ v \subseteq allowed1
                /\ (allowed0 \ v) \subseteq
                       (IF control = "VmEntry" /\ "vmentry" \in Ops(log)
                        THEN {9} ELSE {})

\* C1: the INIT handler has rewritten the VM-entry controls on a CPU whose
\* capability MSR makes bit 9 a must-be-1 bit.
C1_InitClearedMustBeOne ==
    /\ vmcs["guest::ACTIVITY_STATE"] = WaitForSipi
    /\ vmcs["control::VMENTRY_CONTROLS"] # Unwritten
    /\ 9 \in LowHalf(Governing("VmEntry"))
    /\ 9 \notin vmcs["control::VMENTRY_CONTROLS"]

\* C1 (as stated): every value written to a VMX control field satisfies
\* (v | allowed0) == v and (v & allowed1) == v.
C1_EveryWriteWithinBothHalves ==
    \A control \in VmxControl \ {"ProcessorBased3"} :
        LET v == vmcs[FieldOf(control)]
        IN  v # Unwritten =>
                /\ BitOr(v, LowHalf(Governing(control))) = v
                /\ BitAnd(v, HighHalf(Governing(control))) = v

C3_AdjustFatalIffForbidden ==
    AdjustReturned =>
        LET allowed1 == IF call.control = "ProcessorBased3"
                        THEN Governing(call.control)
                        ELSE HighHalf(Governing(call.control))
        IN  /\ ret.kind \in {"value", "panic"}
            /\ (ret.kind = "panic") <=> ~(call.arg \subseteq allowed1)
            /\ ret.kind = "panic" => ret.value = NoValue
            /\ (call.control = "ProcessorBased3" /\ ret.kind = "value")
                    => ret.value = BitAnd(call.arg, allowed1)
            /\ (/\ call.control # "ProcessorBased3"
                /\ LowHalf(Governing(call.control)) = {}
                /\ allowed1 = Bits(\h4)
                /\ call.arg = Bits(\h3)) => ret = Panicked

\* C3: the call of the example has panicked.
C3_ExamplePanicked ==
    /\ AdjustReturned
    /\ call.control = "PinBased"
    /\ Governing("PinBased") = Cap({}, Bits(\h4))
    /\ call.arg = Bits(\h3)
    /\ ret = Panicked

AccessRightsReturned ==
    pc = "returned" /\ call.fn = "access_rights"

\* C4: access_rights(0) is exactly the unusable flag 0x10000; for a
\* non-zero n the result is (n >> 8) & 0xF0FF: bit 16 is clear and no bit
\* outside the mask 0b1111_0000_1111_1111 is set.
C4_AccessRightsEncoding ==
    AccessRightsReturned =>
        /\ ret.kind = "value"
        /\ IF call.arg = {}
           THEN ret.value = {16}
           ELSE /\ 16 \notin ret.value
                /\ ret.value \subseteq (0..7) \cup (12..15)
                /\ ret.value = {i \in (0..7) \cup (12..15) : i + 8 \in call.arg}

\* C4: a call whose argument has a bit the shift moves onto bit 16 and a bit
\* it moves onto a masked position.
C4_MaskedBitsDropped ==
    /\ AccessRightsReturned
    /\ call.arg = {8, 16, 24}
    /\ ret.value = {0}

\* C5 (as amended): access_rights maps the native value 0x00CF_9B00 (the
\* LAR layout, access byte in bits 8-15) to 0xC09B, the native value
\* 0x0000_CF9B to 0xCF, and 0 to 0x10000.
C5_AccessRightsExamples ==
    AccessRightsReturned =>
        /\ call.arg = Bits(\hCF9B00) => ret.value = Bits(\hC09B)
        /\ call.arg = Bits(\hCF9B) => ret.value = Bits(\hCF)
        /\ call.arg = {} => ret.value = Bits(\h10000)

\* C5: access_rights(0x0000_CF9B) has returned 0xCF.
C5_LowWordShiftedOut ==
    /\ AccessRightsReturned
    /\ call.arg = Bits(\hCF9B)
    /\ ret = Returned(Bits(\hCF))

\* C5 (as stated): access_rights maps the native value 0x0000_CF9B to
\* 0xC09B and the native value 0 to 0x10000.
C5_StatedExamples ==
    AccessRightsReturned =>
        /\ call.arg = Bits(\hCF9B) => ret.value = Bits(\hC09B)
        /\ call.arg = {} => ret.value = Bits(\h10000)

HostSelectorField(s) == "host::" \o s \o "_SELECTOR"

\* C6: once initialize() has completed, and after any run() and exit
\* handler, every host selector field (ES, CS, SS, DS, FS, GS, TR) is
\* written and has its low 3 bits zero, whatever the live selectors are and
\* also when TR comes from the host GDT/TSS override.
C6_HostSelectorsAligned ==
    \A s \in HostSegments :
        LET v == vmcs[HostSelectorField(s)]
        IN  /\ (pc = "ready" \/ "vmentry" \in Ops(log)) => v # Unwritten
            /\ v # Unwritten => BitAnd(v, {0, 1, 2}) = {}

\* C6: a guest has run on a CPU whose TR selector comes from the override
\* and has its low 3 bits set.
C6_OverrideTrMasked ==
    /\ pc = "ready"
    /\ "vmentry" \in Ops(log)
    /\ env.shared_host.gdts.some
    /\ env.shared_host.gdts.tr = {0, 1, 2, 3}
    /\ vmcs["host::TR_SELECTOR"] = {3}

\* C7: once initialize() has completed the VMCS link pointer is all-ones,
\* and it stays all-ones through every VM-exit that run() handles.
C7_LinkPointerAllOnes ==
    LET link == vmcs["guest::LINK_PTR_FULL"]
    IN  /\ (pc = "ready" \/ "vmentry" \in Ops(log)) => link = U64
        /\ link # Unwritten => link = U64

\* C7: INIT, then SIPI, then CPUID have been handled.
C7_AfterInitSipiCpuid ==
    /\ pc = "ready"
    /\ vmcs["control::CR0_READ_SHADOW"] = {}
    /\ vmcs["guest::CS_BASE"] = Shl(Bits(\h12), 12, U64)
    /\ vmcs["guest::ACTIVITY_STATE"] = Active
    /\ ret.kind = "Cpuid"

\* C8: Vmx::enable writes (cr & fixed1) | fixed0 of the live CR0 and of the
\* live CR4 back to CR0 and CR4, and does so before it executes VMXON.
C8_EnableWritesAdjustedCrs ==
    [][(pc = "boot" /\ pc' # "boot") =>
        LET adjusted0 == BitOr(BitAnd(cr0, msr["IA32_VMX_CR0_FIXED1"]),
                               msr["IA32_VMX_CR0_FIXED0"])
            adjusted4 == BitOr(BitAnd(cr4, msr["IA32_VMX_CR4_FIXED1"]),
                               msr["IA32_VMX_CR4_FIXED0"])
        IN  /\ cr0' = adjusted0
            /\ cr4' = adjusted4
            /\ Len(log') >= 3
            /\ log'[1] = Op("cr0_write", adjusted0)
            /\ log'[2] = Op("cr4_write", adjusted4)
            /\ FirstAt(log', "vmxon") = Len(log')]_vars

\* C8: enable has run on a CPU whose fixed MSRs set one bit of CR0 and
\* clear another.
C8_AdjustedCr0Written ==
    /\ pc = "root"
    /\ msr["IA32_VMX_CR0_FIXED0"] = {0}
    /\ msr["IA32_VMX_CR0_FIXED1"] = {0, 31}
    /\ cr0 = {0, 31}
    /\ log[1] = Op("cr0_write", {0, 31})
    /\ log[Len(log)].op = "vmxon"

CrReturned ==
    pc = "returned" /\ call.fn \in {"get_adjusted_cr0", "get_adjusted_cr4"}

Fixed0 ==
    IF call.fn = "get_adjusted_cr0" THEN msr["IA32_VMX_CR0_FIXED0"]
    ELSE msr["IA32_VMX_CR4_FIXED0"]

Fixed1 ==
    IF call.fn = "get_adjusted_cr0" THEN msr["IA32_VMX_CR0_FIXED1"]
    ELSE msr["IA32_VMX_CR4_FIXED1"]

\* C9 (as amended): in the result of the CR0 (and CR4) adjustment, a bit
\* whose FIXED0 bit is 1 is 1; otherwise a bit whose FIXED1 bit is 0 is 0;
\* otherwise the bit is the input's. fixed0 = all-ones yields all-ones for
\* every fixed1; fixed1 = all-zeros yields fixed0.
C9_Fixed0TakesPrecedence ==
    CrReturned =>
        /\ \A b \in U64 :
            IF b \in Fixed0 THEN b \in ret.value
            ELSE IF b \notin Fixed1 THEN b \notin ret.value
            ELSE (b \in ret.value) <=> (b \in call.arg)
        /\ Fixed0 = U64 => ret.value = U64
        /\ Fixed1 = {} => ret.value = Fixed0

\* C9: an adjustment under fixed1 = all-zeros and a non-zero fixed0.
C9_Fixed1ZeroFixed0Set ==
    /\ CrReturned
    /\ Fixed1 = {}
    /\ Fixed0 = {0}
    /\ ret.value = {0}

\* C9 (as stated): a bit whose FIXED0 bit is 1 is 1, a bit whose FIXED1 bit
\* is 0 is 0, any other bit is the input's; fixed0 = all-ones yields
\* all-ones and fixed1 = all-zeros yields all-zeros, whatever the other
\* fixed MSR holds.
C9_StatedPerBitRule ==
    CrReturned =>
        /\ \A b \in U64 :
            /\ b \in Fixed0 => b \in ret.value
            /\ b \notin Fixed1 => b \notin ret.value
            /\ (b \notin Fixed0 /\ b \in Fixed1)
                    => ((b \in ret.value) <=> (b \in call.arg))
        /\ Fixed0 = U64 => ret.value = U64
        /\ Fixed1 = {} => ret.value = {}

\* C10: on a CPU whose IA32_FEATURE_CONTROL has the lock bit set and the
\* VMXON-outside-SMX bit clear, enablement is fatal: the CPU never gets
\* past it, and no VMCLEAR, VMPTRLD or VM-entry is executed.
C10_LockedOutIsFatal ==
    (/\ 0 \in msr["IA32_FEATURE_CONTROL"]
     /\ 2 \notin msr["IA32_FEATURE_CONTROL"]) =>
        /\ pc \in {"boot", "fatal"}
        /\ Ops(log) \cap {"vmclear", "vmptrld", "vmentry"} = {}

\* C10: enable has run and died on such a CPU.
C10_LockedOutAborted ==
    /\ pc = "fatal"
    /\ 0 \in msr["IA32_FEATURE_CONTROL"]
    /\ 2 \notin msr["IA32_FEATURE_CONTROL"]
    /\ "vmxon" \in Ops(log)
    /\ "wrmsr IA32_FEATURE_CONTROL" \notin Ops(log)

\* The WRMSRs to IA32_FEATURE_CONTROL in a log.
FeatureControlWrites(l) ==
    {i \in 1..Len(l) : l[i].op = "wrmsr IA32_FEATURE_CONTROL"}

\* C11: enable writes IA32_FEATURE_CONTROL only when the lock bit is
\* clear, once, and the value written is the original with bits 0 and 2
\* set; with the lock bit set it executes no WRMSR and the MSR keeps its
\* value. No other MSR changes.
C11_FeatureControlWrittenOnlyUnlocked ==
    [][(pc = "boot" /\ pc' # "boot") =>
        LET original == msr["IA32_FEATURE_CONTROL"]
            written == original \cup {0, 2}
        IN  IF 0 \notin original
            THEN /\ msr' = [msr EXCEPT !["IA32_FEATURE_CONTROL"] = written]
                 /\ Cardinality(FeatureControlWrites(log')) = 1
                 /\ \A i \in FeatureControlWrites(log') : log'[i].value = written
            ELSE /\ msr' = msr
                 /\ FeatureControlWrites(log') = {}]_vars

\* C11: enable has run on a CPU whose IA32_FEATURE_CONTROL was unlocked
\* with bit 1 set.
C11_UnlockedRewritten ==
    /\ pc = "root"
    /\ \E i \in FeatureControlWrites(log) : log[i].value = {0, 1, 2}
    /\ msr["IA32_FEATURE_CONTROL"] = {0, 1, 2}

\* The exits that run() hands to the driver layer: reason and variant.
InstructionExits ==
    {<<Bits(10), "Cpuid">>, <<Bits(31), "Rdmsr">>,
     <<Bits(32), "Wrmsr">>, <<Bits(55), "XSetBv">>}

\* The low 16 bits of the exit reason of the last VM-exit.
LastExitReason == vmcs["ro::EXIT_REASON"] \cap (0..15)

\* The CPU died of a VMX instruction that failed.
VmxInstructionFailed ==
    Ops(log) \cap {"panic: vmwrite", "panic: vmread",
                   "panic: VmFailValid", "panic: VmFailInvalid"} # {}

\* C12 (as stated): after a VM-exit with reason CPUID, RDMSR, WRMSR or
\* XSETBV (and no VMX instruction failing) run() has returned the matching
\* variant with next_rip = guest RIP + instruction length (on u64), and
\* the snapshot RIP/RSP/RFLAGS are the VMCS guest RIP/RSP/RFLAGS; reason
\* 10, length 2, RIP 0x1000 gives Cpuid{next_rip = 0x1002}.
C12_InstructionExitReturned ==
    \A x \in InstructionExits :
        (/\ vmcs["ro::EXIT_REASON"] # Unwritten
         /\ LastExitReason = x[1]
         /\ ~VmxInstructionFailed) =>
            /\ pc = "ready"
            /\ ret.kind = x[2]
            /\ ret.value = WrappingAdd(vmcs["guest::RIP"],
                                       vmcs["ro::VMEXIT_INSTRUCTION_LEN"])
            /\ registers.rip = vmcs["guest::RIP"]
            /\ registers.rsp = vmcs["guest::RSP"]
            /\ registers.rflags = vmcs["guest::RFLAGS"]
            /\ (/\ x[2] = "Cpuid"
                /\ vmcs["guest::RIP"] = Bits(\h1000)
                /\ vmcs["ro::VMEXIT_INSTRUCTION_LEN"] = Bits(2))
                    => (ret.value = Bits(\h1002) /\ registers.rip = Bits(\h1000))

\* C12: run() has died of the addition on a CPUID exit at the top of the
\* address space.
C12_NextRipOverflowed ==
    /\ pc = "fatal"
    /\ LastExitReason = Bits(10)
    /\ vmcs["guest::RIP"] = U64 \ {0}
    /\ vmcs["ro::VMEXIT_INSTRUCTION_LEN"] = Bits(2)
    /\ "panic: overflow" \in Ops(log)

\* C12, where the sum fits 64 bits: the statement above.
C12_ReturnedUnlessOverflow ==
    ("panic: overflow" \notin Ops(log)) => C12_InstructionExitReturned

\* The 16-bit exit reasons run() has an arm for.
HandledReasons == {Bits(3), Bits(4), Bits(10), Bits(31), Bits(32), Bits(55)}

\* The last VM-exit had a reason run() has no arm for.
UnhandledExitTaken ==
    /\ vmcs["ro::EXIT_REASON"] # Unwritten
    /\ LastExitReason \notin HandledReasons

\* C13: after a VM-exit whose 16-bit reason is none of 3, 4, 10, 31, 32,
\* 55, run() has panicked and returned no VmExitReason; unless a VMX
\* instruction failed first, the panic is the one of the catch-all arm and
\* the VMCS dump is the last thing before it. From then on the CPU takes no
\* step: the guest is not entered again.
C13_UnhandledExitIsFatal ==
    /\ [](UnhandledExitTaken =>
            /\ pc = "fatal"
            /\ ret = Panicked
            /\ \/ VmxInstructionFailed
               \/ /\ Len(log) >= 2
                  /\ log[Len(log)].op = "panic: unhandled exit"
                  /\ log[Len(log) - 1].op = "dump vmcs")
    /\ [][UnhandledExitTaken => UNCHANGED vars]_vars

\* C13: run() has died of an EPT-violation exit (reason 48) or of a
\* VM-entry failure exit (reason 33 with bit 31 set).
C13_UnhandledExitPanicked ==
    /\ pc = "fatal"
    /\ LastExitReason \in {Bits(48), Bits(33)}
    /\ "panic: unhandled exit" \in Ops(log)
    /\ "dump vmcs" \in Ops(log)

\* The RFLAGS the latest run_vmx_guest returned (NoValue: none yet).
EntryReturned ==
    IF "vmentry" \in Ops(log) THEN log[FirstAt(log, "vmentry")].value ELSE NoValue

EntryFailed == EntryReturned # NoValue /\ EntryReturned \cap {0, 6} # {}

\* C14: when run_vmx_guest returned RFLAGS with ZF, run() has read the
\* VM-instruction error and died as VmFailValid (or of that VMREAD); with
\* CF and no ZF it has died as VmFailInvalid without that VMREAD; with
\* neither it went on to the VM-exit. The step of a failed entry leaves the
\* snapshot RIP/RSP/RFLAGS and the exit reason as they were: nothing is
\* read back and nothing dispatched.
C14_EntryFailureIsFatal ==
    /\ [](EntryReturned # NoValue =>
            LET zf == 6 \in EntryReturned
                cf == 0 \in EntryReturned
                last == log[Len(log)].op
            IN  /\ zf => /\ pc = "fatal" /\ ret = Panicked
                         /\ last \in {"panic: VmFailValid", "panic: vmread"}
                         /\ log[Len(log) - 1].op = "vmread ro::VM_INSTRUCTION_ERROR"
                /\ (~zf /\ cf) =>
                         /\ pc = "fatal" /\ ret = Panicked
                         /\ last = "panic: VmFailInvalid"
                         /\ "vmread ro::VM_INSTRUCTION_ERROR" \notin Ops(log)
                /\ (~zf /\ ~cf) =>
                         /\ vmcs["ro::EXIT_REASON"] # Unwritten
                         /\ Ops(log) \cap {"panic: VmFailValid",
                                           "panic: VmFailInvalid"} = {})
    /\ [][(pc = "ready" /\ EntryFailed') =>
            /\ registers'.rip = registers.rip
            /\ registers'.rsp = registers.rsp
            /\ registers'.rflags = registers.rflags
            /\ vmcs'["ro::EXIT_REASON"] = vmcs["ro::EXIT_REASON"]
            /\ vmcs'["guest::RIP"] = registers.rip]_vars

\* C14: a VM-entry after a CPUID exit came back with both ZF and CF, and
\* run() died as VmFailValid with the snapshot of the CPUID exit.
C14_BothFlagsFailValid ==
    /\ pc = "fatal"
    /\ EntryReturned = {0, 1, 6}
    /\ "panic: VmFailValid" \in Ops(log)
    /\ LastExitReason = Bits(10)
    /\ registers.rsp = Bits(\h8000)

\* C15: after a SIPI exit with qualification q, VV its low 8 bits, the
\* guest CS selector is VV << 8, the CS base VV << 12, guest RIP is 0 in
\* the VMCS and in the snapshot, the activity state is Active (0) and run()
\* has returned StartupIpi; q = 0x12 gives selector 0x1200, base 0x12000.
C15_SipiStartsAtVector ==
    (/\ vmcs["ro::EXIT_REASON"] # Unwritten
     /\ LastExitReason = Bits(4)
     /\ ~VmxInstructionFailed) =>
        LET VV == vmcs["ro::EXIT_QUALIFICATION"] \cap (0..7)
        IN  /\ pc = "ready"
            /\ ret.kind = "StartupIpi"
            /\ vmcs["guest::CS_SELECTOR"] = Shl(VV, 8, U64)
            /\ vmcs["guest::CS_BASE"] = Shl(VV, 12, U64)
            /\ vmcs["guest::RIP"] = {}
            /\ registers.rip = {}
            /\ vmcs["guest::ACTIVITY_STATE"] = {}
            /\ VV = Bits(\h12) =>
                    /\ vmcs["guest::CS_SELECTOR"] = Bits(\h1200)
                    /\ vmcs["guest::CS_BASE"] = Bits(\h12000)

\* C15: run() has returned from a SIPI exit with vector 0xFF taken in the
\* wait-for-SIPI state an INIT exit left.
C15_SipiAfterInit ==
    /\ pc = "ready"
    /\ LastExitReason = Bits(4)
    /\ ret.kind = "StartupIpi"
    /\ vmcs["ro::EXIT_QUALIFICATION"] = Bits(\hFF)
    /\ vmcs["guest::CS_BASE"] = Bits(\hFF000)
    /\ vmcs["guest::CR3"] = {}
    /\ vmcs["guest::CS_LIMIT"] = Bits(\hFFFF)

\* C16: after an INIT exit the snapshot and the VMCS hold RFLAGS = 0x2 and
\* RIP = 0xFFF0, RDX of the snapshot is 0x600 | (extended_model_id << 16),
\* every other general-purpose register of the snapshot, RSP included, is
\* 0, guest CR3 and the CR0 and CR4 read shadows are 0, the activity state
\* is wait-for-SIPI (3), and run() has returned InitSignal.
C16_InitResetsProcessorState ==
    (/\ vmcs["ro::EXIT_REASON"] # Unwritten
     /\ LastExitReason = Bits(3)
     /\ ~VmxInstructionFailed) =>
        /\ pc = "ready"
        /\ ret.kind = "InitSignal"
        /\ registers.rflags = Bits(2) /\ vmcs["guest::RFLAGS"] = Bits(2)
        /\ registers.rip = Bits(\hFFF0) /\ vmcs["guest::RIP"] = Bits(\hFFF0)
        /\ registers.rdx = BitOr(Bits(\h600), Shl(env.extended_model_id, 16, U64))
        /\ \A r \in RegisterNames \ {"rflags", "rip", "rdx"} : registers[r] = {}
        /\ vmcs["guest::RSP"] = {}
        /\ vmcs["guest::CR3"] = {}
        /\ vmcs["control::CR0_READ_SHADOW"] = {}
        /\ vmcs["control::CR4_READ_SHADOW"] = {}
        /\ vmcs["guest::ACTIVITY_STATE"] = Bits(3)

\* C16: run() has returned from an INIT exit (reason 3 with bit 27 set) of
\* a CPU with extended model 9.
C16_InitTaken ==
    /\ pc = "ready"
    /\ vmcs["ro::EXIT_REASON"] = {0, 1, 27}
    /\ ret.kind = "InitSignal"
    /\ registers.rdx = Bits(\h90600)
    /\ registers.rax = {}

\* The VMX-fixed MSRs of the register a guest adjustment is called for.
GuestFixed0 ==
    IF call.fn = "get_adjusted_guest_cr0" THEN msr["IA32_VMX_CR0_FIXED0"]
    ELSE msr["IA32_VMX_CR4_FIXED0"]

GuestFixed1 ==
    IF call.fn = "get_adjusted_guest_cr0" THEN msr["IA32_VMX_CR0_FIXED1"]
    ELSE msr["IA32_VMX_CR4_FIXED1"]

C18_InitLeavesLongMode ==
    [][(pc = "ready" /\ pc' = "ready" /\ ret'.kind = "InitSignal") =>
        /\ vmcs'["guest::IA32_EFER_FULL"] = {}
        /\ vmcs["control::VMENTRY_CONTROLS"] # Unwritten
        /\ vmcs'["control::VMENTRY_CONTROLS"] =
                vmcs["control::VMENTRY_CONTROLS"] \ {9}]_vars

\* C18: an INIT exit has been handled on a CPU whose VM-entry controls had
\* bits 0 and 9 set by initialize: bit 0 is still there, bit 9 is not.
C18_InitKeptOtherControls ==
    /\ pc = "ready"
    /\ ret.kind = "InitSignal"
    /\ LastExitReason = Bits(3)
    /\ 0 \in LowHalf(Governing("VmEntry"))
    /\ vmcs["control::VMENTRY_CONTROLS"] = {0}
    /\ vmcs["guest::IA32_EFER_FULL"] = {}

\* The range of the leaf that covers gpa: its 4 KiB page in the first
\* large page, its large page elsewhere.
LeafSize(gpa) == IF gpa < LARGE_PAGE_SIZE THEN BASE_PAGE_SIZE ELSE LARGE_PAGE_SIZE
LeafFirst(gpa) == gpa - (gpa % LeafSize(gpa))

\* C19: when build_identity has completed, the walk from PML4[0] of a
\* guest-physical address under it (the first two bytes and the last byte
\* of every 4 KiB page are walked) ends at that address, every entry on
\* the walk has R = W = X = 1, the leaf is a 4 KiB page in the first large
\* page and a large page elsewhere, and the leaf carries the memory type
\* that the MTRR lookup returns for exactly the range of the leaf.
C19_IdentityMapWithMtrrTypes ==
    pc = "ept_walked" =>
            LET gpa == ToInt(call.arg)
                walk == ept_walk(epts, gpa)
            IN  /\ Index(3, gpa) = 0
                /\ ret = Returned(call.arg)
                /\ walk.pa = gpa
                /\ \A n \in 1..Len(walk.path) : {0, 1, 2} \subseteq walk.path[n]
                /\ walk.size = LeafSize(gpa)
                /\ Len(walk.path) = IF gpa < LARGE_PAGE_SIZE THEN 4 ELSE 3
                /\ memory_type(walk.leaf) =
                        Bits(mtrr_find(env.mtrr, LeafFirst(gpa),
                                       LeafFirst(gpa) + LeafSize(gpa)))

\* C19: the tables were built under MTRRs with a device window and lie
\* scattered in memory; an address in the second large page, which is
\* uncacheable, has been walked and came out as itself.
C19_WalkedDeviceWindow ==
    /\ pc = "ept_walked"
    /\ env.mtrr = DeviceWindow
    /\ env.epts_pa = ScatteredEpts(512 * BASE_PAGE_SIZE)
    /\ call.fn = "ept_walk"
    /\ call.arg = Bits(LARGE_PAGE_SIZE + BASE_PAGE_SIZE + 1)
    /\ ret = Returned(call.arg)
    /\ memory_type(epts.pd[0][1]) = {}
    /\ memory_type(epts.pd[0][0]) = {}
    /\ memory_type(epts.pd[TableEntries - 1][TableEntries - 1]) = Bits(1)

\* The address that entry j of page directory i covers from.
PdeAddress(i, j) == (i * TableEntries + j) * LARGE_PAGE_SIZE

\* C20: when build_identity has completed, entry 0 of the first page
\* directory is not large and points at the PT, whose entry i is a 4 KiB
\* leaf (R = W = X = 1) with PFN i, entry 0 for page 0 included; every
\* other entry of every page directory is large with the PFN of its own
\* large-page-aligned address; PML4[0], the PDPT entries and that first PD
\* entry carry neither a memory type nor the large bit.
C20_TableLayout ==
    pc \in {"ept_built", "ept_walked"} =>
        /\ ~large(epts.pd[0][0])
        /\ pfn(epts.pd[0][0]) = Bits(env.epts_pa.pt \div BASE_PAGE_SIZE)
        /\ \A i \in Indices :
                /\ pfn(epts.pt[i]) = Bits(i)
                /\ {0, 1, 2} \subseteq epts.pt[i]
                /\ ~large(epts.pt[i])
        /\ \A i \in Indices, j \in Indices :
                (i # 0 \/ j # 0) =>
                    /\ large(epts.pd[i][j])
                    /\ pfn(epts.pd[i][j]) =
                            Bits(PdeAddress(i, j) \div BASE_PAGE_SIZE)
        /\ \A entry \in {epts.pml4[0], epts.pd[0][0]}
                         \cup {epts.pdpt[i] : i \in Indices} :
                /\ memory_type(entry) = {}
                /\ ~large(entry)
                /\ {0, 1, 2} \subseteq entry

\* C20: the tables have been built under MTRRs that make the first two
\* pages uncacheable and the rest write-back.
C20_BuiltLowUncacheable ==
    /\ pc = "ept_built"
    /\ env.mtrr = LowUncacheable
    /\ epts.pt[0] = {0, 1, 2}
    /\ memory_type(epts.pt[TableEntries - 1]) = Bits(6)
    /\ epts.pd[0][1] = {0, 1, 2, 4, 5, 7} \cup Shl(Bits(TableEntries), 12, U64)

----------------------------------------------------------------------------
(* C21: the APIC-ID registry.                                              *)

\* The APIC ID the i-th callback reads.
ApicIdOf(i) == get(env.cpuid_1_ebx[i])

ApicIdsDistinct ==
    \A i, j \in 1..processor_count : ApicIdOf(i) = ApicIdOf(j) => i = j

ApicInitCalls == Cardinality({i \in 1..Len(log) : log[i].op = "apic_id::init"})

\* C21: init is fatal exactly when a callback finds its APIC ID already in
\* the registry; when it completes on N CPUs the registry maps the N
\* distinct APIC IDs onto 0..N-1 in callback order, PROCESSOR_COUNT is N and
\* a lookup finds exactly that index; a second call of init is fatal and
\* leaves the registry as it was.
C21_RegistryAssignsIndices ==
    /\ [](/\ (pc = "apic_ready") =>
                 /\ ApicIdsDistinct
                 /\ APIC_ID_MAP = {[key |-> ApicIdOf(i), value |-> i - 1] :
                                       i \in 1..processor_count}
                 /\ {e.value : e \in APIC_ID_MAP} = 0..(processor_count - 1)
                 /\ Cardinality(APIC_ID_MAP) = processor_count
                 /\ PROCESSOR_COUNT = processor_count
          /\ (pc = "fatal" /\ ApicInitCalls = 1) => ~ApicIdsDistinct
          /\ (pc = "apic_ready" /\ call.fn = "processor_id_from") =>
                 ret = Returned({i - 1 : i \in {k \in 1..processor_count :
                                                    ApicIdOf(k) = call.arg}}))
    /\ [][(pc = "apic_ready" /\ log' # log) =>
              /\ pc' = "fatal"
              /\ ApicInitCalls' = 2
              /\ UNCHANGED <<APIC_ID_MAP, PROCESSOR_COUNT>>]_vars

\* init completed on three CPUs, the APIC ID 255 among them.
C21_ThreeCpusRegistered ==
    /\ pc = "apic_ready"
    /\ PROCESSOR_COUNT = 3
    /\ [key |-> 255, value |-> 2] \in APIC_ID_MAP

----------------------------------------------------------------------------
(* C22: the shared guest data.                                             *)

\* The CPUs whose initialize() has completed.
Initialized == {c \in Cpus : cpus[c].pc \in {"ready", "guest", "host"}}

\* The CPUs that have made a VM-entry.
Entered == {c \in Cpus : cpus[c].pc \in {"guest", "host"}}

\* C22: in every interleaving the initializer of SHARED_GUEST_DATA runs at
\* most once, and not before the first access; a CPU whose initialize() has
\* completed (so any CPU that has made a VM-entry) finds the construction
\* complete and holds the one MSR-bitmap address and the one EPTP in its
\* VMCS, the same as every other CPU; once complete, the data, the bitmap
\* page and the EPT are not written again.
C22_SharedDataBuiltOnce ==
    /\ [](/\ SHARED_GUEST_DATA.constructions <= 1
          /\ SHARED_GUEST_DATA.status = "Complete" =>
                 /\ SHARED_GUEST_DATA.constructions = 1
                 /\ epts = build_identity(ZeroedEpts).epts
                 /\ SHARED_GUEST_DATA.msr_bitmaps = {}
          /\ SHARED_GUEST_DATA.status = "Incomplete" =>
                 /\ epts = ZeroedEpts
                 /\ \A c \in Cpus : cpus[c].pc = "deref"
          /\ Entered \subseteq Initialized
          /\ \A c \in Initialized :
                 /\ SHARED_GUEST_DATA.status = "Complete"
                 /\ cpus[c].vmcs["control::MSR_BITMAPS_ADDR_FULL"] =
                        SHARED_GUEST_DATA.msr_bitmaps_pa
                 /\ cpus[c].vmcs["control::EPTP_FULL"] = SHARED_GUEST_DATA.eptp
          /\ \A c, d \in Initialized :
                 /\ cpus[c].vmcs["control::MSR_BITMAPS_ADDR_FULL"] =
                        cpus[d].vmcs["control::MSR_BITMAPS_ADDR_FULL"]
                 /\ cpus[c].vmcs["control::EPTP_FULL"] =
                        cpus[d].vmcs["control::EPTP_FULL"])
    /\ [][SHARED_GUEST_DATA.status = "Complete" =>
              UNCHANGED <<SHARED_GUEST_DATA, epts>>]_vars

\* Two CPUs run the guest while another is still at its first access.
C22_LateCpuFindsDataBuilt ==
    /\ Cardinality(Entered) >= 2
    /\ \E c \in Cpus : cpus[c].pc = "deref"
    /\ SHARED_GUEST_DATA.constructions = 1

----------------------------------------------------------------------------
(* C23: the six handled exits.                                             *)

\* The variants run() returns for the six reasons it has an arm for.
HandledKinds == {"InitSignal", "StartupIpi", "Cpuid", "Rdmsr", "Wrmsr", "XSetBv"}

\* The last VM-exit had one of the six reasons, and no VMX instruction failed.
HandledExitTaken ==
    /\ vmcs["ro::EXIT_REASON"] # Unwritten
    /\ LastExitReason \in HandledReasons
    /\ ~VmxInstructionFailed

\* C23 (as stated): after a VM-exit with reason CPUID, RDMSR, WRMSR, XSETBV,
\* INIT or SIPI, whatever the guest RIP, the instruction length and the exit
\* qualification, run() has returned a VmExitReason of the matching kind
\* and has not panicked, and the CPU stands where the next run() enters the
\* guest.
C23_HandledExitAlwaysReturns ==
    HandledExitTaken =>
        /\ pc = "ready"
        /\ ret.kind \in HandledKinds
        /\ ret.kind = ExitKind(LastExitReason)
        /\ ~\E i \in 1..Len(log) : log[i].op = "panic: overflow"

\* C23: a handled exit, no VMX instruction failed, and run() has panicked
\* instead of returning.
C23_HandledExitAborted ==
    /\ HandledExitTaken
    /\ pc = "fatal"
    /\ ret = Panicked
    /\ log[Len(log)].op = "panic: overflow"

\* C23, apart from the overflow of RIP + length: the statement above.
C23_ReturnsWhenNextRipFits ==
    (\A i \in 1..Len(log) : log[i].op # "panic: overflow")
        => C23_HandledExitAlwaysReturns

----------------------------------------------------------------------------
(* C24: the snapshot is what the guest resumes with.                       *)

\* run() has returned an instruction exit.
InstructionExitReturned == pc = "ready" /\ ret.kind \in InstructionKinds

\* C24: a run() that enters the guest and returns an instruction exit taken
\* at the first instruction the guest executed finds the guest where the
\* snapshot stood when run() was called: the VMCS guest RIP, RSP and RFLAGS
\* of the exit are the snapshot's, and so is the RIP the driver stored
\* since the previous run(). When the previous run() returned an
\* instruction exit and the driver changed nothing, the guest is back at
\* the RIP of that exit.
C24_GuestResumesWithSnapshot ==
    [][(pc = "ready" /\ InstructionExitReturned') =>
          /\ vmcs'["guest::RIP"] = registers.rip
          /\ vmcs'["guest::RSP"] = registers.rsp
          /\ vmcs'["guest::RFLAGS"] = registers.rflags
          /\ InstructionExitReturned =>
                 /\ vmcs'["guest::RIP"] = vmcs["guest::RIP"]
                 /\ vmcs'["guest::RSP"] = vmcs["guest::RSP"]
                 /\ vmcs'["guest::RFLAGS"] = vmcs["guest::RFLAGS"]]_vars

\* C24: the driver stored next_rip of a CPUID exit at 0x1000, and the next
\* exit is taken at 0x1002.
C24_ResumedAtNextRip ==
    /\ InstructionExitReturned
    /\ vmcs["guest::RIP"] = Bits(\h1002)
    /\ registers.rip = Bits(\h1002)
    /\ ret.value = Bits(\h1004)

----------------------------------------------------------------------------
(* C25: the segment state after INIT.                                      *)

\* An INIT exit has been handled and no VMX instruction failed.
InitHandled ==
    /\ vmcs["ro::EXIT_REASON"] # Unwritten
    /\ LastExitReason = Bits(3)
    /\ ~VmxInstructionFailed

SegmentIs(s, selector, base, limit, rights) ==
    /\ vmcs["guest::" \o s \o "_SELECTOR"] = selector
    /\ vmcs["guest::" \o s \o "_BASE"] = base
    /\ vmcs["guest::" \o s \o "_LIMIT"] = limit
    /\ vmcs["guest::" \o s \o "_ACCESS_RIGHTS"] = rights

\* C25: after an INIT exit the VMCS holds CS = 0xF000 / 0xFFFF_0000 /
\* 0xFFFF / 0x9B; SS, DS, ES, FS and GS = 0 / 0 / 0xFFFF / 0x93; LDTR =
\* 0 / 0 / 0xFFFF / 0x82; TR = 0 / 0 / 0xFFFF / 0x8B; GDTR and IDTR with
\* base 0 and limit 0xFFFF; and no access-rights field has the unusable
\* bit (16).
C25_InitSegmentState ==
    InitHandled =>
        /\ SegmentIs("CS", Bits(\hF000), 16..31, Bits(\hFFFF), Bits(\h9B))
        /\ \A s \in {"SS", "DS", "ES", "FS", "GS"} :
               SegmentIs(s, {}, {}, Bits(\hFFFF), Bits(\h93))
        /\ SegmentIs("LDTR", {}, {}, Bits(\hFFFF), Bits(\h82))
        /\ SegmentIs("TR", {}, {}, Bits(\hFFFF), Bits(\h8B))
        /\ vmcs["guest::GDTR_BASE"] = {} /\ vmcs["guest::GDTR_LIMIT"] = Bits(\hFFFF)
        /\ vmcs["guest::IDTR_BASE"] = {} /\ vmcs["guest::IDTR_LIMIT"] = Bits(\hFFFF)
        /\ \A s \in Segments : 16 \notin vmcs["guest::" \o s \o "_ACCESS_RIGHTS"]

\* C25: an INIT exit has been handled on a CPU whose segments were the
\* live 64-bit ones: TR had the limit 0x67 and FS a base before it.
C25_InitAfterLongMode ==
    /\ InitHandled
    /\ pc = "ready"
    /\ ret.kind = "InitSignal"
    /\ env.lsl["TR"] = Bits(\h67)
    /\ vmcs["guest::TR_LIMIT"] = Bits(\hFFFF)
    /\ vmcs["guest::CS_ACCESS_RIGHTS"] = Bits(\h9B)

----------------------------------------------------------------------------
(* C26: the guest segment fields after initialize().                       *)

\* initialize() has completed and the guest has not been entered yet.
JustInitialized == pc = "ready" /\ vmcs["ro::EXIT_REASON"] = Unwritten

\* C26 (as stated): after initialize(), for each of CS, SS, DS, ES, FS, GS,
\* TR and LDTR the VMCS guest selector is the live selector, the limit is
\* what LSL gives for it and the access rights are the re-encoding of what
\* LAR gives for it (unusable only when that is 0); the guest bases of CS,
\* SS, DS and ES are zero.
C26_GuestSegmentsAreLive ==
    JustInitialized =>
        /\ \A s \in Segments :
            /\ vmcs["guest::" \o s \o "_SELECTOR"] = env.sel[s]
            /\ vmcs["guest::" \o s \o "_LIMIT"] = env.lsl[s]
            /\ vmcs["guest::" \o s \o "_ACCESS_RIGHTS"] =
                    (IF env.lar[s] = {} THEN {16}
                     ELSE BitAnd(Shr(env.lar[s], 8), Bits(\hF0FF)))
        /\ \A s \in {"CS", "SS", "DS", "ES"} : vmcs["guest::" \o s \o "_BASE"] = {}

\* C26: initialize() has completed on a platform whose LDTR is loaded, and
\* the guest LDTR is unusable with its limit never written.
C26_LiveLdtrMadeUnusable ==
    /\ JustInitialized
    /\ env.sel["LDTR"] = Bits(\h60)
    /\ env.lar["LDTR"] = Bits(\h8200)
    /\ vmcs["guest::LDTR_SELECTOR"] = Bits(\h60)
    /\ vmcs["guest::LDTR_ACCESS_RIGHTS"] = {16}
    /\ vmcs["guest::LDTR_LIMIT"] = Unwritten

\* C26, for what initialize_guest writes: the eight selectors are the live
\* ones; the limits and access rights of the seven registers other than
\* LDTR are LSL and the re-encoded LAR; the LDTR access rights are the
\* unusable flag alone; the LDTR limit and the bases of CS, SS, DS and ES
\* are never written.
C26_WrittenSegmentFields ==
    JustInitialized =>
        /\ \A s \in Segments : vmcs["guest::" \o s \o "_SELECTOR"] = env.sel[s]
        /\ \A s \in Segments \ {"LDTR"} :
            /\ vmcs["guest::" \o s \o "_LIMIT"] = env.lsl[s]
            /\ vmcs["guest::" \o s \o "_ACCESS_RIGHTS"] =
                    (IF env.lar[s] = {} THEN {16}
                     ELSE BitAnd(Shr(env.lar[s], 8), Bits(\hF0FF)))
        /\ vmcs["guest::LDTR_ACCESS_RIGHTS"] = {16}
        /\ vmcs["guest::LDTR_LIMIT"] = Unwritten
        /\ \A s \in {"CS", "SS", "DS", "ES"} :
               vmcs["guest::" \o s \o "_BASE"] = Unwritten

----------------------------------------------------------------------------
(* C27: the order of the bring-up steps of a CPU.                          *)

\* The three groups of fields that initialize() programs.
ControlGroup ==
    ControlFields \cup {"control::MSR_BITMAPS_ADDR_FULL", "control::EPTP_FULL"}

GuestGroup ==
    {"guest::" \o s \o "_SELECTOR" : s \in Segments}
    \cup {"guest::" \o s \o "_LIMIT" : s \in Segments \ {"LDTR"}}
    \cup {"guest::" \o s \o "_ACCESS_RIGHTS" : s \in Segments}
    \cup {"guest::FS_BASE", "guest::GS_BASE", "guest::TR_BASE",
          "guest::GDTR_BASE", "guest::GDTR_LIMIT", "guest::IDTR_BASE",
          "guest::IDTR_LIMIT", "guest::IA32_SYSENTER_CS",
          "guest::IA32_SYSENTER_EIP", "guest::IA32_SYSENTER_ESP",
          "guest::LINK_PTR_FULL", "guest::CR0", "guest::CR3", "guest::CR4",
          "guest::RSP", "guest::RIP", "guest::RFLAGS"}

HostGroup ==
    {"host::" \o s \o "_SELECTOR" : s \in HostSegments}
    \cup {"host::CR0", "host::CR3", "host::CR4", "host::FS_BASE",
          "host::GS_BASE", "host::TR_BASE", "host::GDTR_BASE", "host::IDTR_BASE"}

\* How often an operation is in the log.
Times(op) == Cardinality({i \in 1..Len(log) : log[i].op = op})

\* C27: on a CPU, VMXON is executed on a region that holds the revision
\* identifier, after CR0 and CR4 were written and after the feature-control
\* MSR was (if it is written at all); VMCLEAR is executed on a VMCS region
\* that holds the revision identifier, after VMXON; VMPTRLD follows
\* VMCLEAR; no VMCS field is written before VMPTRLD; the control, guest and
\* host groups are all programmed before the first VM-entry; and a VMXON
\* the processor refuses, or a failed VMWRITE, VMREAD or VM-entry, leaves
\* the CPU dead: it takes no further step.
C27_BringUpOrder ==
    /\ [](/\ "vmxon" \in Ops(log) =>
                 /\ log[FirstAt(log, "vmxon")].value = AsU32(msr["IA32_VMX_BASIC"])
                 /\ 0 < FirstAt(log, "cr0_write")
                 /\ FirstAt(log, "cr0_write") < FirstAt(log, "cr4_write")
                 /\ FirstAt(log, "cr4_write") < FirstAt(log, "vmxon")
                 /\ \A i \in FeatureControlWrites(log) : i < FirstAt(log, "vmxon")
                 /\ ~vmxon_instruction_permitted(msr["IA32_FEATURE_CONTROL"])
                        => pc = "fatal"
          /\ "vmclear" \in Ops(log) =>
                 /\ log[FirstAt(log, "vmclear")].value = AsU32(msr["IA32_VMX_BASIC"])
                 /\ 0 < FirstAt(log, "vmxon")
                 /\ FirstAt(log, "vmxon") < FirstAt(log, "vmclear")
          /\ "vmptrld" \in Ops(log) =>
                 /\ 0 < FirstAt(log, "vmclear")
                 /\ FirstAt(log, "vmclear") < FirstAt(log, "vmptrld")
          /\ (\E f \in Fields : vmcs[f] # Unwritten) => "vmptrld" \in Ops(log)
          /\ "vmentry" \in Ops(log) =>
                 /\ \A f \in ControlGroup \cup GuestGroup \cup HostGroup :
                        vmcs[f] # Unwritten
                 /\ Times("vmxon") = 1 /\ Times("vmclear") = 1
                 /\ Times("vmptrld") = 1
          /\ VmxInstructionFailed => pc = "fatal"
          /\ pc \in {"root", "clear", "current", "ready"} =>
                 vmxon_instruction_permitted(msr["IA32_FEATURE_CONTROL"]))
    /\ [][pc = "fatal" => UNCHANGED vars]_vars

\* C27: the guest has been entered on a CPU whose feature-control MSR was
\* unlocked at load.
C27_EnteredAfterFullBringUp ==
    /\ "vmentry" \in Ops(log)
    /\ pc = "ready"
    /\ FeatureControlWrites(log) # {}
    /\ FirstAt(log, "vmptrld") = FirstAt(log, "vmclear") + 1

----------------------------------------------------------------------------
(* C28: the identity maps of the host paging structures and of the EPTs.   *)

\* build_identity_internal has run with this npt.
HostBuilt(npt) ==
    /\ pc # "ps_zeroed"
    /\ Op("build_identity_internal", IF npt THEN {0} ELSE {}) \in
           {log[n] : n \in 1..Len(log)}

\* An entry that is present and writable, with the given user and large
\* bits, and that names the page frame of pa.
HostEntryIs(entry, user, is_large, pa) ==
    /\ entry \cap {0, 1} = {0, 1}
    /\ (2 \in entry) = user
    /\ (7 \in entry) = is_large
    /\ ToInt(pfn(entry)) = pa \div BASE_PAGE_SIZE

\* The pointer entries and the large pages that both kinds of build share.
HostUpperLevels(ps, npt) ==
    /\ HostEntryIs(ps.pml4[0], npt, FALSE, env.ps_pa.pdpt)
    /\ \A k \in Indices \ {0} : ps.pml4[k] = {}
    /\ \A i \in Indices : HostEntryIs(ps.pdpt[i], npt, FALSE, env.ps_pa.pd[i])
    /\ \A i, j \in Indices :
           (i # 0 \/ j # 0) =>
               HostEntryIs(ps.pd[i][j], npt, TRUE,
                           (i * TableEntries + j) * LARGE_PAGE_SIZE)
    /\ ps.pt_apic = ZeroTable

\* What a walk of an address must give: the identity, writable, with the
\* user bit of the build; absent is the null page of the host's own build.
HostWalkIs(walk, npt) ==
    IF ~npt /\ walk.va < BASE_PAGE_SIZE
    THEN ~walk.present /\ walk.levels = 4
    ELSE /\ walk.present /\ walk.writable /\ walk.user = npt
         /\ walk.pa = walk.va
         /\ walk.levels = (IF ~npt /\ walk.va < LARGE_PAGE_SIZE THEN 4 ELSE 3)

\* C28: build_identity (npt = false) maps the whole address space under
\* PML4[0] onto itself with present, writable, non-user entries: the first
\* large-page range through the PT, whose entry 0 alone is non-present, and
\* every other PD entry as a large page; with npt = true the PT stays
\* unused, PD[0][0] is a large page at 0 and every entry has user = 1; and
\* the EPTs built on the same platform have page 0 readable, writable and
\* executable, so that the guest's access to address 0 is translated to 0.
C28_HostIdentityMapAndNullPage ==
    LET ps == paging_structures
    IN  /\ HostBuilt(FALSE) =>
               /\ HostUpperLevels(ps, FALSE)
               /\ HostEntryIs(ps.pd[0][0], FALSE, FALSE, env.ps_pa.pt)
               /\ 0 \notin ps.pt[0]
               /\ \A k \in Indices \ {0} :
                      HostEntryIs(ps.pt[k], FALSE, FALSE, k * BASE_PAGE_SIZE)
        /\ HostBuilt(TRUE) =>
               /\ HostUpperLevels(ps, TRUE)
               /\ HostEntryIs(ps.pd[0][0], TRUE, TRUE, 0)
               /\ ps.pt = ZeroTable
        /\ \A npt \in BOOLEAN :
               HostBuilt(npt) /\ ret.kind = "walk" => HostWalkIs(ret.value, npt)
        /\ pc \in {"ept_built", "ept_walked"} =>
               /\ epts.pt[0] \cap {0, 1, 2} = {0, 1, 2}
               /\ pfn(epts.pt[0]) = {}
        /\ pc = "ept_walked" /\ call.arg = {} => ret = Returned({})

\* The host has built its tables without nested paging, page 0 is absent
\* from them, and the guest's access to address 0 went through the EPTs.
C28_NullPageAbsentInHostPresentInEpt ==
    /\ HostBuilt(FALSE)
    /\ 0 \notin paging_structures.pt[0]
    /\ 0 \in paging_structures.pt[1]
    /\ ~ps_walk(paging_structures, 0).present
    /\ pc = "ept_walked"
    /\ call.fn = "ept_walk"
    /\ call.arg = {}
    /\ ret = Returned({})

----------------------------------------------------------------------------
(* C29: the snapshot and the VMCS agree whenever run() returns.             *)

\* run() has returned a VmExitReason.
RunReturned == pc = "ready" /\ ret.kind \in HandledKinds

\* C29: whenever run() has returned, for any of the six handled reasons,
\* RIP, RSP and RFLAGS of the snapshot equal the guest RIP, RSP and RFLAGS
\* fields of the VMCS, so that the three VMWRITEs at the start of the next
\* run() leave the VMCS as it is when the caller has not touched the snapshot.
C29_SnapshotEqualsVmcsOnReturn ==
    RunReturned =>
        /\ registers.rip = vmcs["guest::RIP"]
        /\ registers.rsp = vmcs["guest::RSP"]
        /\ registers.rflags = vmcs["guest::RFLAGS"]
        /\ LET pre == run_entry_writes(registers)
           IN  AfterSteps(vmcs, pre, Len(pre)) = vmcs

\* run() has returned from a SIPI exit that followed an INIT: RIP is the 0
\* of the SIPI handler, RSP and RFLAGS are as the exit saved them, in the
\* snapshot and in the VMCS.
C29_AgreeAfterInitAndSipi ==
    /\ RunReturned
    /\ ret.kind = "StartupIpi"
    /\ vmcs["guest::CS_ACCESS_RIGHTS"] = Bits(\h9B)
    /\ registers.rip = {}
    /\ vmcs["guest::RIP"] = {}
    /\ registers.rsp = Bits(\h8000)
    /\ vmcs["guest::RSP"] = Bits(\h8000)
    /\ registers.rflags = vmcs["guest::RFLAGS"]

----------------------------------------------------------------------------
(* C30: the guest activity state over a sequence of exits.                  *)

\* The fields a SIPI exit and its handler may change: what the VM-entry and
\* the VM-exit store, and the four VMWRITEs of the handler.
SipiFields ==
    {"guest::RIP", "guest::RSP", "guest::RFLAGS", "ro::EXIT_REASON",
     "ro::EXIT_QUALIFICATION", "ro::VMEXIT_INSTRUCTION_LEN",
     "guest::CS_SELECTOR", "guest::CS_BASE", "guest::ACTIVITY_STATE"}

\* C30: a step of run() changes the guest activity state only when the
\* exit is an INIT (to wait-for-SIPI) or a SIPI (to active): it stays as it
\* is over a CPUID, RDMSR, WRMSR or XSETBV exit, so wait-for-SIPI lasts
\* from the INIT to the SIPI. A SIPI exit with vector VV leaves the guest
\* active with CS selector VV << 8, CS base VV << 12 and RIP 0 and no other
\* guest field changed, so after an INIT the CS limit 0xFFFF and the rest of
\* the real-mode state stand; and it does so whatever the activity state
\* was before, wait-for-SIPI or not.
C30_ActivityStateFollowsInitAndSipi ==
    [][pc = "ready" =>
        LET before == vmcs["guest::ACTIVITY_STATE"]
            after == vmcs'["guest::ACTIVITY_STATE"]
            kind == ExitKind(AsU16(vmcs'["ro::EXIT_REASON"]))
            returned == pc' = "ready" /\ ret'.kind \in HandledKinds
            VV == vmcs'["ro::EXIT_QUALIFICATION"] \cap (0..7)
        IN  /\ after # before =>
                   \/ kind = "InitSignal" /\ after = WaitForSipi
                   \/ kind = "StartupIpi" /\ after = Active
            /\ returned /\ ret'.kind = "InitSignal" => after = WaitForSipi
            /\ returned /\ ret'.kind \in InstructionKinds => after = before
            /\ returned /\ ret'.kind = "StartupIpi" =>
                   /\ after = Active
                   /\ vmcs'["guest::CS_SELECTOR"] = Shl(VV, 8, U64)
                   /\ vmcs'["guest::CS_BASE"] = Shl(VV, 12, U64)
                   /\ vmcs'["guest::RIP"] = {}
                   /\ registers'.rip = {}
                   /\ \A f \in DOMAIN vmcs \ SipiFields : vmcs'[f] = vmcs[f]
                   /\ before = WaitForSipi =>
                          /\ vmcs'["guest::CS_LIMIT"] = Bits(\hFFFF)
                          /\ vmcs'["guest::CS_ACCESS_RIGHTS"] = Bits(\h9B)
                          /\ vmcs'["guest::CR3"] = {}
                          /\ vmcs'["guest::GDTR_LIMIT"] = Bits(\hFFFF)
    ]_vars

\* run() has returned a CPUID exit taken after an INIT and before any SIPI:
\* the guest is still in wait-for-SIPI, in the state the INIT handler set.
C30_WaitForSipiKeptOverCpuid ==
    /\ pc = "ready"
    /\ ret.kind = "Cpuid"
    /\ vmcs["guest::ACTIVITY_STATE"] = WaitForSipi
    /\ vmcs["guest::CS_SELECTOR"] = Bits(\hF000)
    /\ vmcs["guest::CS_LIMIT"] = Bits(\hFFFF)

=============================================================================
